---- MODULE Spec2Model ----
(***************************************************************************)
(* The voice subsystem of the PAI server: VoiceManager (voice/manager.ts)  *)
(* and the four voice providers it constructs (macOS, Windows, Android,    *)
(* ElevenLabs).                                                            *)
(*                                                                         *)
(* JavaScript runs the Manager's async methods on one thread: a method     *)
(* runs without interruption up to its next `await`, where any other       *)
(* pending continuation (or a newly arriving call) may run.  Every action  *)
(* below is one such uninterrupted stretch of code.                        *)
(***************************************************************************)
EXTENDS Integers, Sequences, FiniteSets, Bags, TLC

(***************************************************************************)
(* Bounds of the model.                                                    *)
(***************************************************************************)
\* Number of calls (initialize, speak, getVoices, setProvider) made on the
\* Manager in one behaviour; the asynchronous ones may all be pending at
\* the same time.
MaxCalls == 2

(***************************************************************************)
(* Strings whose characters matter (provider names, setProvider's          *)
(* argument) are sequences of one-character strings, so that toLowerCase   *)
(* is computed character by character.                                     *)
(***************************************************************************)
UpperChars == <<"A","B","C","D","E","F","G","H","I","J","K","L","M",
                "N","O","P","Q","R","S","T","U","V","W","X","Y","Z">>

LowerChars == <<"a","b","c","d","e","f","g","h","i","j","k","l","m",
                "n","o","p","q","r","s","t","u","v","w","x","y","z">>

\* String.prototype.toLowerCase, one character.
ToLowerChar(ch) ==
    IF \E i \in DOMAIN UpperChars : UpperChars[i] = ch
    THEN LowerChars[CHOOSE i \in DOMAIN UpperChars : UpperChars[i] = ch]
    ELSE ch

\* String.prototype.toLowerCase.
ToLowerCase(s) == [i \in DOMAIN s |-> ToLowerChar(s[i])]

\* The `name` fields of the four provider classes.
NameMacOS == <<"m","a","c","O","S">>

NameWindows == <<"W","i","n","d","o","w","s">>

NameAndroid == <<"A","n","d","r","o","i","d">>

NameElevenLabs == <<"E","l","e","v","e","n","L","a","b","s">>

\* The providers in the order VoiceManager.initialize constructs them;
\* a provider kind is its index in this list.
ProviderNames == <<NameMacOS, NameWindows, NameAndroid, NameElevenLabs>>

Kinds == DOMAIN ProviderNames

\* Arguments handed to setProvider: the exact names, other spellings of
\* them, and names of no provider.
NameInputs ==
    { NameMacOS,
      <<"M","A","C","O","S">>,
      <<"w","i","n","d","o","w","s">>,
      NameAndroid,
      <<"e","l","e","v","e","n","l","a","b","s">>,
      <<"S","i","r","i">> }

(***************************************************************************)
(* Provider objects.  A provider is the record of its fields: its kind     *)
(* (which fixes its name) and its `available` flag.  The flag is written   *)
(* only by the provider's own initialize(), which the Manager awaits once, *)
(* before it may push the provider; so a pushed provider never changes.    *)
(***************************************************************************)
\* JavaScript's null (and undefined) where a provider is expected.
NULL == [kind |-> 0, available |-> FALSE]

Provider(k, flag) == [kind |-> k, available |-> flag]

\* provider.name
NameOf(p) == ProviderNames[p.kind]

\* What a provider's initialize() does when awaited: it fulfils having set
\* `available` to true or to false, or it rejects.
DetectionResults == {"available", "unavailable", "raises"}

VARIABLES
    env,            \* the host: what each provider kind's initialize() does
    providers,      \* VoiceManager.providers
    activeProvider, \* VoiceManager.activeProvider
    initialized,    \* VoiceManager.initialized
    calls,          \* the pending Manager calls (a bag of call records)
    ncalls,         \* how many calls were made on the Manager
    detections,     \* per provider kind, how often its initialize() was called
    event           \* what the step just taken returned or threw

managerVars == <<env, providers, activeProvider, initialized, calls, ncalls,
                 detections, event>>

\* sanitizeText and normalizeRate called on their own.  A result that is
\* not computed yet is <<>>, a computed one is <<result>>.
VARIABLES
    text,           \* the argument of sanitizeText
    cleaned,        \* sanitizeText(text)
    recleaned,      \* sanitizeText(sanitizeText(text))
    wpm,            \* the argument of normalizeRate
    sapiRate        \* normalizeRate(wpm)

functionVars == <<text, cleaned, recleaned, wpm, sapiRate>>

\* One provider object used on its own, without a Manager.
VARIABLES
    prov,           \* the provider: its kind, `available` flag and apiKey
    pcalls,         \* its pending calls (a set of call records)
    pn,             \* how many calls were made on it
    files,          \* the temporary audio files that exist under /tmp
    removals,       \* the `rm` processes spawned and not run yet
    now,            \* Date.now()
    platform,       \* process.platform
    pevent          \* what the step just taken returned, threw or dispatched

providerVars == <<prov, pcalls, pn, files, removals, now, platform, pevent>>

\* The chat routes of the server: POST /api/chat and /ws/chat.
VARIABLES
    voiceUp,        \* voice.isAvailable(): the Manager has an active provider
    reqs,           \* the chat requests whose pai.chat() is pending
    replies,        \* per request, the messages sent to its client
    bgSpeaks,       \* the speak calls started in the background
    rn,             \* how many requests arrived
    revent          \* what the step just taken did

routeVars == <<voiceUp, reqs, replies, bgSpeaks, rn, revent>>

\* The DeviceAuthManager and its storage file.
VARIABLES
    trustedDevices, \* DeviceAuthManager.trustedDevices: fingerprint -> device
    deviceTokens,   \* DeviceAuthManager.deviceTokens: fingerprint -> token
    storage,        \* .devices.json: <<>> when missing, else <<its data>>
    dcalls,         \* the pending registerDevice, saveDevices, loadDevices
    dn,             \* how many calls were made on the DeviceAuthManager
    nfp,            \* how many fingerprints were generated
    revoked,        \* the fingerprints revokeDevice has returned true for
    devent          \* what the step just taken returned

deviceVars == <<trustedDevices, deviceTokens, storage, dcalls, dn, nfp,
                revoked, devent>>

\* The PAICore and its agents directory.
VARIABLES
    agentsDir,      \* the directory <paiDir>/agents
    agents,         \* PAICore.agents: the names registered, and from where
    coreReady,      \* PAICore.initialize() has completed
    cn,             \* how many chat() calls were made
    cevent          \* what the step just taken returned or threw

coreVars == <<agentsDir, agents, coreReady, cn, cevent>>

serverVars == <<routeVars, deviceVars, coreVars>>

vars == <<managerVars, functionVars, providerVars, serverVars>>

(***************************************************************************)
(* Events: what the step just taken returned or threw.                     *)
(***************************************************************************)
NoFlags == [k \in Kinds |-> FALSE]

NoEvent ==
    [op |-> "none", status |-> "none", error |-> "", voices |-> <<>>,
     name |-> <<>>, target |-> NULL, ran |-> FALSE, flags |-> NoFlags]

Returned(op) == [NoEvent EXCEPT !.op = op, !.status = "resolved"]

Threw(op, msg) == [NoEvent EXCEPT !.op = op, !.status = "rejected", !.error = msg]

Internal(op) == [NoEvent EXCEPT !.op = op, !.status = "pending"]

\* What a step of a provider used on its own leaves behind; NoProviderEvent
\* before any step.
NoProviderEvent ==
    [op |-> "none", status |-> "none", error |-> "", result |-> FALSE,
     outcome |-> "none", text |-> <<>>, handed |-> <<>>,
     dispatched |-> FALSE, file |-> 0,
     options |-> [hasRate |-> FALSE, rate |-> 0, hasPitch |-> FALSE, pitch |-> 0],
     rate |-> <<>>, pitch |-> <<>>, detail |-> <<>>]

\* No function is being called on its own.
FunctionsIdle ==
    /\ text = <<>> /\ cleaned = <<>> /\ recleaned = <<>>
    /\ wpm = 0 /\ sapiRate = <<>>

\* No provider is being used on its own.
ProviderIdle ==
    /\ prov = [kind |-> 0, available |-> FALSE, apiKey |-> FALSE]
    /\ pcalls = {} /\ pn = 0 /\ files = {} /\ removals = {} /\ now = 0
    /\ platform = "linux"
    /\ pevent = NoProviderEvent

NoRouteEvent == [op |-> "none", id |-> 0, outcome |-> "none"]

NoDeviceEvent == [op |-> "none", found |-> FALSE, fingerprint |-> 0, token |-> <<>>]

NoCoreEvent == [op |-> "none", status |-> "none", agentType |-> "", error |-> ""]

\* No Manager is in use.
ManagerIdle ==
    /\ env = [k \in Kinds |-> "unavailable"]
    /\ providers = <<>> /\ activeProvider = NULL /\ initialized = FALSE
    /\ calls = EmptyBag /\ ncalls = 0
    /\ detections = [k \in Kinds |-> 0] /\ event = NoEvent

\* No chat route is in use.
RoutesIdle ==
    /\ voiceUp = FALSE /\ reqs = {} /\ replies = <<>> /\ bgSpeaks = {}
    /\ rn = 0 /\ revent = NoRouteEvent

\* No DeviceAuthManager is in use.
DevicesIdle ==
    /\ trustedDevices = <<>> /\ deviceTokens = <<>> /\ storage = <<>>
    /\ dcalls = {} /\ dn = 0 /\ nfp = 0 /\ revoked = {}
    /\ devent = NoDeviceEvent

\* No PAICore is in use.
CoreIdle ==
    /\ agentsDir = [state |-> "missing", files |-> {}]
    /\ agents = {} /\ coreReady = FALSE /\ cn = 0
    /\ cevent = NoCoreEvent

\* Neither the routes, nor the DeviceAuthManager, nor the PAICore.
ServerIdle == RoutesIdle /\ DevicesIdle /\ CoreIdle

\* The Manager as constructed, on a host where each provider's
\* initialize() does one of `results`.
InitFor(results) ==
    /\ env \in [Kinds -> results]
    /\ providers = <<>>
    /\ activeProvider = NULL
    /\ initialized = FALSE
    /\ calls = EmptyBag
    /\ ncalls = 0
    /\ detections = [k \in Kinds |-> 0]
    /\ event = NoEvent
    /\ FunctionsIdle
    /\ ProviderIdle
    /\ ServerIdle

\* Every combination of availability results of the four providers.
Init == InitFor({"available", "unavailable"})

(***************************************************************************)
(* Pending calls.  A call record holds where the call stands (pc), and,    *)
(* while it runs initialize(), the loop position and the `available` flags *)
(* of the four providers that run constructed.                             *)
(***************************************************************************)
Pending == BagToSet(calls)

Replace(old, new) == (calls (-) SetToBag({old})) (+) SetToBag({new})

Remove(old) == calls (-) SetToBag({old})

(***************************************************************************)
(* VoiceManager.initialize                                                 *)
(***************************************************************************)
\* Array.prototype.find: the first element of seq passing the test, else
\* undefined (NULL here: `||` treats undefined and null alike).  The test
\* is given as the set of elements that pass it.
FindFirst(seq, passing) ==
    IF \E i \in DOMAIN seq : seq[i] \in passing
    THEN seq[CHOOSE i \in DOMAIN seq :
                 seq[i] \in passing /\ \A j \in 1..(i - 1) : seq[j] \notin passing]
    ELSE NULL

\* The elements of a sequence.
Range(seq) == {seq[i] : i \in DOMAIN seq}

\* Faulty variant of SelectActive: the test is inverted, so the cloud
\* provider is preferred over the native ones.
SelectActive_PreferCloud(provs) ==
    LET cloud == FindFirst(provs, {p \in Range(provs) : NameOf(p) = NameElevenLabs})
    IN  IF cloud # NULL THEN cloud
        ELSE IF Len(provs) > 0 THEN provs[1]
        ELSE NULL

\* this.providers.find(p => p.name !== 'ElevenLabs') || this.providers[0] || null
SelectActive(provs) ==
    LET native == FindFirst(provs, {p \in Range(provs) : NameOf(p) # NameElevenLabs})
    IN  IF native # NULL THEN native
        ELSE IF Len(provs) > 0 THEN provs[1]
        ELSE NULL

\* Faulty variant of ProviderInitialize: the detection result is awaited
\* but never assigned to the flag.
ProviderInitialize_NoAssign(k, flag) == flag

\* A provider's initialize(): `this.available = await this.isAvailable()`.
\* The flag after it has settled (unchanged when it rejects).
ProviderInitialize(k, flag) ==
    IF env[k] = "raises" THEN flag ELSE env[k] = "available"

\* Faulty variant of AwaitOutcome: no try/catch around the await, so a
\* rejection propagates out of initialize().
AwaitOutcome_NoCatch(k) == IF env[k] = "raises" THEN "thrown" ELSE "fulfilled"

\* How `await provider.initialize()` ends for the Manager's loop body: the
\* try/catch turns a rejection into a caught (and logged) exception.
AwaitOutcome(k) == IF env[k] = "raises" THEN "caught" ELSE "fulfilled"

\* Faulty variant of PushIfAvailable: every provider is pushed.
PushIfAvailable_Always(provs, p) == Append(provs, p)

\* if (provider.available) this.providers.push(provider)
PushIfAvailable(provs, p) == IF p.available THEN Append(provs, p) ELSE provs

\* Faulty variant of StartRun: the initialize() of all four providers is
\* called at once (as under Promise.all), not one after the other.
StartRun_AllAtOnce(kind) ==
    /\ calls' = calls (+) SetToBag({[kind |-> kind, pc |-> "init", idx |-> 1,
                                     flags |-> NoFlags, target |-> NULL]})
    /\ detections' = [k \in Kinds |-> detections[k] + 1]
    /\ ncalls' = ncalls + 1

\* The body of initialize() past the `initialized` guard, up to the first
\* await: the four providers are constructed (available = false) and the
\* first one's initialize() is called.
StartRun(kind) ==
    /\ calls' = calls (+) SetToBag({[kind |-> kind, pc |-> "init", idx |-> 1,
                                     flags |-> NoFlags, target |-> NULL]})
    /\ detections' = [detections EXCEPT ![1] = @ + 1]
    /\ ncalls' = ncalls + 1

\* A caller invokes initialize().
InitializeCall ==
    /\ ncalls < MaxCalls
    /\ IF initialized
       THEN /\ event' = Returned("initialize")
            /\ ncalls' = ncalls + 1
            /\ UNCHANGED <<calls, detections>>
       ELSE /\ StartRun("initialize")
            /\ event' = Internal("initialize")
    /\ UNCHANGED <<env, providers, activeProvider, initialized>>
    /\ UNCHANGED <<functionVars, providerVars, serverVars>>

\* The initialize() of the provider that run c awaits settles and the
\* Manager's loop resumes: the rest of the loop body, then either the next
\* provider's initialize() is called, or (after the last provider) the
\* active provider is selected and initialize() returns.  Nothing else can
\* read the flag of a provider that is not pushed yet, so the provider's
\* write of it and the Manager's resumption are one step.
InitializeResume(c) ==
    /\ c \in Pending
    /\ c.pc = "init"
    /\ LET k == c.idx
           flags == [c.flags EXCEPT ![k] = ProviderInitialize(k, @)]
           out == AwaitOutcome(k)
           provs == IF out = "fulfilled"
                    THEN PushIfAvailable(providers, Provider(k, flags[k]))
                    ELSE providers
           done == [c EXCEPT !.idx = 0, !.flags = NoFlags,
                             !.pc = IF out = "thrown" THEN "initFailed" ELSE "afterInit"]
       IN  IF out = "thrown"
           THEN \* an exception that nothing catches rejects initialize()
                /\ calls' = IF c.kind = "initialize" THEN Remove(c) ELSE Replace(c, done)
                /\ event' = [Threw("initialize", "provider initialize failed")
                                EXCEPT !.ran = TRUE, !.flags = flags]
                /\ UNCHANGED <<providers, activeProvider, initialized, detections>>
           ELSE IF k < Len(ProviderNames)
           THEN /\ providers' = provs
                /\ calls' = Replace(c, [c EXCEPT !.idx = k + 1, !.flags = flags])
                /\ detections' = [detections EXCEPT ![k + 1] = @ + 1]
                /\ event' = Internal("initialize")
                /\ UNCHANGED <<activeProvider, initialized>>
           ELSE /\ providers' = provs
                /\ activeProvider' = SelectActive(provs)
                /\ initialized' = TRUE
                /\ calls' = IF c.kind = "initialize" THEN Remove(c) ELSE Replace(c, done)
                /\ event' = [Returned("initialize") EXCEPT !.ran = TRUE, !.flags = flags]
                /\ UNCHANGED detections
    /\ UNCHANGED <<env, ncalls>>
    /\ UNCHANGED <<functionVars, providerVars, serverVars>>

(***************************************************************************)
(* The providers' speak and getVoices, as the Manager sees them.           *)
(***************************************************************************)
\* How the backend of a provider's speak can end: the spawned command's
\* exit or spawn error; for ElevenLabs the HTTP response, then the player.
SpeakOutcomes(k) ==
    IF ProviderNames[k] = NameElevenLabs
    THEN {"played", "httpError", "noPlayer", "playerExit1", "playerError"}
    ELSE {"exit0", "exit1", "spawnError"}

\* The error a provider's speak throws when its `available` flag is false.
NotAvailableError(k) ==
    CASE ProviderNames[k] = NameMacOS -> "macOS voice provider not available"
      [] ProviderNames[k] = NameWindows -> "Windows voice provider not available"
      [] ProviderNames[k] = NameAndroid -> "Android voice provider not available"
      [] ProviderNames[k] = NameElevenLabs -> "ElevenLabs API key not configured"

\* What a provider's speak settles with, given how its backend ended:
\* "" when it resolves, else the error it rejects with.
ProviderSpeak(k, outcome) ==
    CASE outcome \in {"exit0", "played"} -> ""
      [] outcome \in {"spawnError", "playerError"} -> "spawn error"
      [] outcome = "httpError" -> "ElevenLabs API error"
      [] outcome = "noPlayer" -> "No audio player found"
      [] outcome = "playerExit1" -> "Audio player exited with code 1"
      [] outcome = "exit1" /\ ProviderNames[k] = NameMacOS ->
             "say command exited with code 1"
      [] outcome = "exit1" /\ ProviderNames[k] = NameWindows ->
             "PowerShell exited with code 1"
      [] outcome = "exit1" /\ ProviderNames[k] = NameAndroid ->
             "termux-tts-speak exited with code 1"

\* How the enumeration behind a provider's getVoices can end.  macOS and
\* Android answer from a fixed list; Windows spawns PowerShell; ElevenLabs
\* fetches its catalogue.
EnumOutcomes(k) ==
    CASE ProviderNames[k] = NameWindows -> {"exit0", "exit1", "spawnError"}
      [] ProviderNames[k] = NameElevenLabs -> {"ok", "httpError", "fetchError"}
      [] OTHER -> {"static"}

\* What an enumeration that succeeded printed or returned: lines of fields
\* (a line of one field has no '|' in it).
Payloads ==
    { <<>>,
      << <<"warning">>, <<"Microsoft Zira", "en-US", "Female">> >> }

\* The ids of the voices parsed from a payload: the lines that hold a '|',
\* each giving its first field.
ParseVoices(payload) ==
    LET lines == SelectSeq(payload, LAMBDA l : Len(l) > 1)
    IN  [i \in DOMAIN lines |-> lines[i][1]]

MacOSVoices == <<"Jamie", "Ava", "Tom", "Serena", "Isha", "Oliver", "Samantha">>

AndroidVoices == <<"default">>

\* What a provider's getVoices settles with.
ProviderGetVoices(k, avail, outcome, payload) ==
    LET ok(v) == [status |-> "resolved", voices |-> v, error |-> ""]
        fail(e) == [status |-> "rejected", voices |-> <<>>, error |-> e]
    IN  IF ~avail THEN ok(<<>>)
        ELSE CASE ProviderNames[k] = NameMacOS -> ok(MacOSVoices)
               [] ProviderNames[k] = NameAndroid -> ok(AndroidVoices)
               [] ProviderNames[k] = NameWindows ->
                      IF outcome = "exit0" THEN ok(ParseVoices(payload))
                      ELSE IF outcome = "exit1"
                      THEN fail("PowerShell exited with code 1")
                      ELSE fail("spawn error")
               [] ProviderNames[k] = NameElevenLabs ->
                      IF outcome = "ok" THEN ok(ParseVoices(payload))
                      ELSE ok(<<>>)

(***************************************************************************)
(* VoiceManager.speak                                                      *)
(***************************************************************************)
ErrNoProvider == "No voice provider available"

\* Faulty variant of NoActive: the guard tests the wrong field.
NoActive_Uninitialized == ~initialized

\* !this.activeProvider
NoActive == activeProvider = NULL

\* A call that is past `await this.initialize()`, or never needed it.
Ready(kind) == [kind |-> kind, pc |-> "afterInit", idx |-> 0,
                flags |-> NoFlags, target |-> NULL]

\* Faulty variant of SpeakBody: speak dispatches to the first provider of
\* the available set instead of the active one.
SpeakBody_DispatchFirst(cs) ==
    IF NoActive
    THEN /\ calls' = cs
         /\ event' = Threw("speak", ErrNoProvider)
    ELSE /\ calls' = cs (+) SetToBag({[kind |-> "speak", pc |-> "dispatched",
                                        idx |-> 0, flags |-> NoFlags,
                                        target |-> providers[1]]})
         /\ event' = [Internal("speak") EXCEPT !.target = providers[1]]

\* speak() from `if (!this.activeProvider)` on, up to the provider's first
\* await.  `cs` is the bag of the other pending calls.
SpeakBody(cs) ==
    IF NoActive
    THEN /\ calls' = cs
         /\ event' = Threw("speak", ErrNoProvider)
    ELSE IF activeProvider = NULL
    THEN \* calling a method of null throws a TypeError
         /\ calls' = cs
         /\ event' = Threw("speak", "TypeError")
    ELSE IF ~activeProvider.available
    THEN /\ calls' = cs
         /\ event' = [Threw("speak", NotAvailableError(activeProvider.kind))
                         EXCEPT !.target = activeProvider]
    ELSE /\ calls' = cs (+) SetToBag({[Ready("speak") EXCEPT
                                         !.pc = "dispatched",
                                         !.target = activeProvider]})
         /\ event' = [Internal("speak") EXCEPT !.target = activeProvider]

\* A caller invokes speak(text, options).
SpeakCall ==
    /\ ncalls < MaxCalls
    /\ IF ~initialized
       THEN /\ StartRun("speak")
            /\ event' = Internal("initialize")
       ELSE /\ SpeakBody(calls)
            /\ ncalls' = ncalls + 1
            /\ UNCHANGED detections
    /\ UNCHANGED <<env, providers, activeProvider, initialized>>
    /\ UNCHANGED <<functionVars, providerVars, serverVars>>

\* speak() resumes after `await this.initialize()`.
SpeakResume(c) ==
    /\ c \in Pending
    /\ c.kind = "speak"
    /\ c.pc \in {"afterInit", "initFailed"}
    /\ IF c.pc = "initFailed"
       THEN /\ calls' = Remove(c)
            /\ event' = Threw("speak", "provider initialize failed")
       ELSE SpeakBody(Remove(c))
    /\ UNCHANGED <<env, providers, activeProvider, initialized, ncalls, detections>>
    /\ UNCHANGED <<functionVars, providerVars, serverVars>>

\* Faulty variant of SpeakSettle: a provider whose speak failed is
\* deactivated.
SpeakSettle_Deactivate(c, outcome) ==
    /\ c \in Pending
    /\ c.kind = "speak"
    /\ c.pc = "dispatched"
    /\ outcome \in SpeakOutcomes(c.target.kind)
    /\ LET err == ProviderSpeak(c.target.kind, outcome)
       IN  /\ event' = [(IF err = "" THEN Returned("speak") ELSE Threw("speak", err))
                           EXCEPT !.target = c.target]
           /\ activeProvider' = IF err = "" THEN activeProvider ELSE NULL
    /\ calls' = Remove(c)
    /\ UNCHANGED <<env, providers, initialized, ncalls, detections>>
    /\ UNCHANGED <<functionVars, providerVars, serverVars>>

\* Faulty variant of SpeakSettle: when the provider's speak fails and the
\* available set holds another provider, the call falls back to that one.
SpeakSettle_Fallback(c, outcome) ==
    /\ c \in Pending
    /\ c.kind = "speak"
    /\ c.pc = "dispatched"
    /\ outcome \in SpeakOutcomes(c.target.kind)
    /\ LET err == ProviderSpeak(c.target.kind, outcome)
           others == {p \in Range(providers) : p # c.target}
       IN  IF err # "" /\ others # {}
           THEN LET next == FindFirst(providers, others)
                IN  /\ calls' = Replace(c, [c EXCEPT !.target = next])
                    /\ event' = [Internal("speak") EXCEPT !.target = next]
           ELSE /\ calls' = Remove(c)
                /\ event' = [(IF err = "" THEN Returned("speak")
                                          ELSE Threw("speak", err))
                                EXCEPT !.target = c.target]
    /\ UNCHANGED <<env, providers, activeProvider, initialized, ncalls, detections>>
    /\ UNCHANGED <<functionVars, providerVars, serverVars>>

\* The active provider's speak settles, and with it the Manager's speak.
SpeakSettle(c, outcome) ==
    /\ c \in Pending
    /\ c.kind = "speak"
    /\ c.pc = "dispatched"
    /\ outcome \in SpeakOutcomes(c.target.kind)
    /\ LET err == ProviderSpeak(c.target.kind, outcome)
       IN  event' = [(IF err = "" THEN Returned("speak") ELSE Threw("speak", err))
                        EXCEPT !.target = c.target]
    /\ calls' = Remove(c)
    /\ UNCHANGED <<env, providers, activeProvider, initialized, ncalls, detections>>
    /\ UNCHANGED <<functionVars, providerVars, serverVars>>

(***************************************************************************)
(* VoiceManager.getVoices                                                  *)
(***************************************************************************)
\* getVoices() from `if (!this.activeProvider)` on, up to the provider's
\* first await.
GetVoicesBody(cs) ==
    IF NoActive
    THEN /\ calls' = cs
         /\ event' = Returned("getVoices")
    ELSE IF activeProvider = NULL
    THEN \* calling a method of null throws a TypeError
         /\ calls' = cs
         /\ event' = Threw("getVoices", "TypeError")
    ELSE /\ calls' = cs (+) SetToBag({[Ready("getVoices") EXCEPT
                                         !.pc = "dispatched",
                                         !.target = activeProvider]})
         /\ event' = [Internal("getVoices") EXCEPT !.target = activeProvider]

\* A caller invokes getVoices().
GetVoicesCall ==
    /\ ncalls < MaxCalls
    /\ IF ~initialized
       THEN /\ StartRun("getVoices")
            /\ event' = Internal("initialize")
       ELSE /\ GetVoicesBody(calls)
            /\ ncalls' = ncalls + 1
            /\ UNCHANGED detections
    /\ UNCHANGED <<env, providers, activeProvider, initialized>>
    /\ UNCHANGED <<functionVars, providerVars, serverVars>>

\* getVoices() resumes after `await this.initialize()`.
GetVoicesResume(c) ==
    /\ c \in Pending
    /\ c.kind = "getVoices"
    /\ c.pc \in {"afterInit", "initFailed"}
    /\ IF c.pc = "initFailed"
       THEN /\ calls' = Remove(c)
            /\ event' = Threw("getVoices", "provider initialize failed")
       ELSE GetVoicesBody(Remove(c))
    /\ UNCHANGED <<env, providers, activeProvider, initialized, ncalls, detections>>
    /\ UNCHANGED <<functionVars, providerVars, serverVars>>

\* The active provider's getVoices settles, and with it the Manager's.
GetVoicesSettle(c, outcome, payload) ==
    /\ c \in Pending
    /\ c.kind = "getVoices"
    /\ c.pc = "dispatched"
    /\ outcome \in EnumOutcomes(c.target.kind)
    /\ LET res == ProviderGetVoices(c.target.kind, c.target.available,
                                    outcome, payload)
       IN  event' = [NoEvent EXCEPT !.op = "getVoices", !.status = res.status,
                                    !.voices = res.voices, !.error = res.error,
                                    !.target = c.target]
    /\ calls' = Remove(c)
    /\ UNCHANGED <<env, providers, activeProvider, initialized, ncalls, detections>>
    /\ UNCHANGED <<functionVars, providerVars, serverVars>>

(***************************************************************************)
(* VoiceManager.setProvider, getProviders, getActiveProvider               *)
(***************************************************************************)
\* Faulty variant of NameMatches: the comparison is case-sensitive.
NameMatches_CaseSensitive(p, providerName) == NameOf(p) = providerName

\* p.name.toLowerCase() === providerName.toLowerCase()
NameMatches(p, providerName) == ToLowerCase(NameOf(p)) = ToLowerCase(providerName)

\* Faulty variant of SetProvider: the result of the lookup is assigned
\* before it is tested.
SetProvider_AssignFirst(providerName) ==
    LET provider == FindFirst(providers,
                             {p \in Range(providers) : NameMatches(p, providerName)})
    IN  /\ ncalls < MaxCalls
        /\ ncalls' = ncalls + 1
        /\ activeProvider' = provider
        /\ event' = [(IF provider = NULL
                      THEN Threw("setProvider", "Provider not available")
                      ELSE Returned("setProvider")) EXCEPT !.name = providerName]
        /\ UNCHANGED <<env, providers, initialized, calls, detections>>
        /\ UNCHANGED <<functionVars, providerVars, serverVars>>

\* setProvider(providerName): it has no await, so it runs as one step.
SetProvider(providerName) ==
    LET provider == FindFirst(providers,
                             {p \in Range(providers) : NameMatches(p, providerName)})
    IN  /\ ncalls < MaxCalls
        /\ ncalls' = ncalls + 1
        /\ IF provider = NULL
           THEN /\ event' = [Threw("setProvider", "Provider not available")
                                EXCEPT !.name = providerName]
                /\ UNCHANGED activeProvider
           ELSE /\ activeProvider' = provider
                /\ event' = [Returned("setProvider") EXCEPT !.name = providerName]
        /\ UNCHANGED <<env, providers, initialized, calls, detections>>
        /\ UNCHANGED <<functionVars, providerVars, serverVars>>

\* getProviders(): `return this.providers`; the route GET
\* /api/voice/providers maps each entry to its name and availability.
GetProviders ==
    [i \in DOMAIN providers |->
        [name |-> NameOf(providers[i]), available |-> providers[i].available]]

\* getActiveProvider(): this.activeProvider?.name || null  (null is <<>>)
GetActiveProvider == IF activeProvider = NULL THEN <<>> ELSE NameOf(activeProvider)

(***************************************************************************)
(* The specification.                                                      *)
(***************************************************************************)
AllSpeakOutcomes == UNION {SpeakOutcomes(k) : k \in Kinds}

AllEnumOutcomes == UNION {EnumOutcomes(k) : k \in Kinds}

Next ==
    \/ InitializeCall
    \/ \E c \in Pending : InitializeResume(c)
    \/ SpeakCall
    \/ \E c \in Pending : SpeakResume(c)
    \/ \E c \in Pending, o \in AllSpeakOutcomes : SpeakSettle(c, o)
    \/ GetVoicesCall
    \/ \E c \in Pending : GetVoicesResume(c)
    \/ \E c \in Pending, o \in AllEnumOutcomes, pl \in Payloads :
           GetVoicesSettle(c, o, pl)
    \/ \E n \in NameInputs : SetProvider(n)

\* The Manager, for every combination of availability results.
Spec == Init /\ [][Next]_vars

\* The hosts the four provider classes can meet: the macOS and the Windows
\* provider each test process.platform first, so at most one of the two is
\* available.
HostInit == Init /\ ~(env[1] = "available" /\ env[2] = "available")

\* The Manager with the four provider classes of the repository.
HostSpec == HostInit /\ [][Next]_vars

\* The Manager against the VoiceProvider contract alone: a provider's
\* initialize() may also reject.  (The initialize() of the four provider
\* classes never does: isAvailable catches every failure of its check.)
ContractInit == InitFor(DetectionResults)

ContractSpec == ContractInit /\ [][Next]_vars

\* Number of calls made on a Manager that starts out initialized.
MaxReadyCalls == 3

RECURSIVE DetectedUpTo(_)
\* this.providers once the loop of initialize() has passed provider k.
DetectedUpTo(k) ==
    IF k = 0 THEN <<>>
    ELSE PushIfAvailable(DetectedUpTo(k - 1),
                         Provider(k, ProviderInitialize(k, FALSE)))

\* The Manager as the server has it when it starts to listen: its
\* `await voice.initialize()` has completed (server.ts), on one of the hosts
\* of HostInit.  The calls made from here on are counted up to
\* MaxReadyCalls.
ReadyInit ==
    /\ env \in [Kinds -> {"available", "unavailable"}]
    /\ ~(env[1] = "available" /\ env[2] = "available")
    /\ providers = DetectedUpTo(Len(ProviderNames))
    /\ activeProvider = SelectActive(providers)
    /\ initialized = TRUE
    /\ calls = EmptyBag
    /\ ncalls = MaxCalls - MaxReadyCalls
    /\ detections = [k \in Kinds |-> 1]
    /\ event = NoEvent
    /\ FunctionsIdle
    /\ ProviderIdle
    /\ ServerIdle

\* The steps of an initialized Manager: no call waits for initialize().
ReadyNext ==
    \/ InitializeCall
    \/ SpeakCall
    \/ \E c \in Pending, o \in AllSpeakOutcomes : SpeakSettle(c, o)
    \/ GetVoicesCall
    \/ \E c \in Pending, o \in AllEnumOutcomes, pl \in Payloads :
           GetVoicesSettle(c, o, pl)
    \/ \E n \in NameInputs : SetProvider(n)

ReadySpec == ReadyInit /\ [][ReadyNext]_vars

(***************************************************************************)
(* BaseVoiceProvider.sanitizeText (voice/providers/base.ts).  A text is a  *)
(* sequence of one-character strings; each pass is one                     *)
(* String.prototype.replace with a global regular expression, which scans  *)
(* from the left and resumes after each match.                             *)
(***************************************************************************)
\* Number of pieces a text handed to sanitizeText is put together from.
MaxPieces == 3

\* The character ` (U+0060), which a TLA+ string cannot hold.
BackTick == "backtick"

\* The characters the regular expression class \s matches, of those used.
WhiteSpace == {" ", "\n", "\t"}

\* replace(/[...]/g, ''): every character of the class is removed.
RemoveChars(s, class) == SelectSeq(s, LAMBDA ch : ch \notin class)

\* replace(/[<>]/g, '')
StripAngles(s) == RemoveChars(s, {"<", ">"})

RECURSIVE StripBold(_)
\* replace(/\*\*/g, ''): pairs of stars, matched from the left.
StripBold(s) ==
    IF Len(s) < 2 THEN s
    ELSE IF s[1] = "*" /\ s[2] = "*" THEN StripBold(SubSeq(s, 3, Len(s)))
    ELSE <<s[1]>> \o StripBold(Tail(s))

\* Faulty variant of StripItalic: without the g flag, only the first star
\* is removed.
StripItalic_FirstOnly(s) ==
    LET i == IF \E j \in DOMAIN s : s[j] = "*"
             THEN CHOOSE j \in DOMAIN s : s[j] = "*" /\ \A l \in 1..(j - 1) : s[l] # "*"
             ELSE 0
    IN  IF i = 0 THEN s ELSE SubSeq(s, 1, i - 1) \o SubSeq(s, i + 1, Len(s))

\* replace(/\*/g, '')
StripItalic(s) == RemoveChars(s, {"*"})

\* replace(/`/g, '')
StripTicks(s) == RemoveChars(s, {BackTick})

\* The lengths m of a match of #{1,6} at the head of s that \s can follow.
HeadingMatches(s) ==
    {m \in 1..6 : /\ m < Len(s)
                  /\ \A i \in 1..m : s[i] = "#"
                  /\ s[m + 1] \in WhiteSpace}

RECURSIVE StripHeadings_HashOnly(_)
\* Faulty variant of StripHeadings: the whitespace after the marker stays.
StripHeadings_HashOnly(s) ==
    IF s = <<>> THEN s
    ELSE IF HeadingMatches(s) # {}
    THEN LET m == CHOOSE n \in HeadingMatches(s) : \A o \in HeadingMatches(s) : o <= n
         IN  StripHeadings_HashOnly(SubSeq(s, m + 1, Len(s)))
    ELSE <<s[1]>> \o StripHeadings_HashOnly(Tail(s))

RECURSIVE StripHeadings(_)
\* replace(/#{1,6}\s/g, ''): one to six '#' (as many as match) and the
\* whitespace character after them, wherever they stand in the text.
StripHeadings(s) ==
    IF s = <<>> THEN s
    ELSE IF HeadingMatches(s) # {}
    THEN LET m == CHOOSE n \in HeadingMatches(s) : \A o \in HeadingMatches(s) : o <= n
         IN  StripHeadings(SubSeq(s, m + 2, Len(s)))
    ELSE <<s[1]>> \o StripHeadings(Tail(s))

\* The index of the first ch in s at or after from; 0 if there is none.
IndexOf(s, ch, from) ==
    IF \E i \in from..Len(s) : s[i] = ch
    THEN CHOOSE i \in from..Len(s) : s[i] = ch /\ \A j \in from..(i - 1) : s[j] # ch
    ELSE 0

\* A match of \[([^\]]+)\]\([^)]+\) at the head of s: <<j, k>>, the places
\* of its ']' and of its closing ')'; <<0, 0>> when there is no match.  The
\* label runs up to the first ']' and the target up to the first ')', and
\* neither is empty.
LinkMatch(s) ==
    LET j == IndexOf(s, "]", 2)
        k == IndexOf(s, ")", j + 2)
    IN  IF /\ Len(s) >= 6 /\ s[1] = "["
           /\ j >= 3 /\ j < Len(s) /\ s[j + 1] = "("
           /\ k >= j + 3
        THEN <<j, k>>
        ELSE <<0, 0>>

RECURSIVE RewriteLinks(_)
\* replace(/\[([^\]]+)\]\([^)]+\)/g, '$1'): a link becomes its label.
RewriteLinks(s) ==
    IF s = <<>> THEN s
    ELSE LET m == LinkMatch(s)
         IN  IF m[1] # 0
             THEN SubSeq(s, 2, m[1] - 1) \o RewriteLinks(SubSeq(s, m[2] + 1, Len(s)))
             ELSE <<s[1]>> \o RewriteLinks(Tail(s))

RECURSIVE TrimStart(_)
TrimStart(s) ==
    IF s # <<>> /\ s[1] \in WhiteSpace THEN TrimStart(Tail(s)) ELSE s

RECURSIVE TrimEnd(_)
TrimEnd(s) ==
    IF s # <<>> /\ s[Len(s)] \in WhiteSpace
    THEN TrimEnd(SubSeq(s, 1, Len(s) - 1))
    ELSE s

\* String.prototype.trim
Trim(s) == TrimEnd(TrimStart(s))

\* sanitizeText(text): the seven passes, in the order of the source.
SanitizeText(s) ==
    Trim(RewriteLinks(StripHeadings(StripTicks(StripItalic(StripBold(
        StripAngles(s)))))))

\* The pieces texts are put together from: the markup characters, white
\* space, a letter, a double quote, a full heading marker and two links.
Pieces ==
    { <<"<">>, <<">">>, <<"*">>, <<BackTick>>, <<"#">>, <<"[">>, <<"]">>,
      <<"(">>, <<")">>, <<" ">>, <<"\n">>, <<"a">>, <<"\"">>,
      <<"#", "#", "#", "#", "#", "#">>,
      <<"[", "a", "]", "(", "u", ")">>,
      <<"[", " ", "]", "(", "u", ")">> }

RECURSIVE TextsOf(_)
\* The texts made of at most n pieces.
TextsOf(n) ==
    IF n = 0 THEN {<<>>}
    ELSE TextsOf(n - 1) \cup {t \o p : t \in TextsOf(n - 1), p \in Pieces}

\* The text of the documented example and the result documented for it.
ExampleText ==
    << "*", "*", "b", "o", "l", "d", "*", "*", " ", "a", "n", "d",
       " ", "*", "i", "t", "a", "l", "i", "c", "*", " ", "a", "n",
       "d", " ", BackTick, "c", "o", "d", "e", BackTick, " ", "a", "n", "d",
       " ", "#", " ", "H", "e", "a", "d", "i", "n", "g", " ", "a",
       "n", "d", " ", "[", "t", "e", "x", "t", "]", "(", "u", "r",
       "l", ")" >>

ExampleClean ==
    << "b", "o", "l", "d", " ", "a", "n", "d", " ", "i", "t", "a",
       "l", "i", "c", " ", "a", "n", "d", " ", "c", "o", "d", "e",
       " ", "a", "n", "d", " ", "H", "e", "a", "d", "i", "n", "g",
       " ", "a", "n", "d", " ", "t", "e", "x", "t" >>

Texts == TextsOf(MaxPieces) \cup {ExampleText}

SanitizeInit ==
    /\ text \in Texts
    /\ cleaned = <<>> /\ recleaned = <<>>
    /\ wpm = 0 /\ sapiRate = <<>>
    /\ ProviderIdle
    /\ ServerIdle
    /\ env = [k \in Kinds |-> "unavailable"]
    /\ providers = <<>> /\ activeProvider = NULL /\ initialized = FALSE
    /\ calls = EmptyBag /\ ncalls = 0
    /\ detections = [k \in Kinds |-> 0] /\ event = NoEvent

\* A caller sanitizes the text.
Sanitize ==
    /\ cleaned = <<>>
    /\ cleaned' = <<SanitizeText(text)>>
    /\ UNCHANGED <<text, recleaned, wpm, sapiRate, managerVars, providerVars, serverVars>>

\* A caller sanitizes the sanitized text again.
SanitizeAgain ==
    /\ cleaned # <<>> /\ recleaned = <<>>
    /\ recleaned' = <<SanitizeText(cleaned[1])>>
    /\ UNCHANGED <<text, cleaned, wpm, sapiRate, managerVars, providerVars, serverVars>>

SanitizeNext == Sanitize \/ SanitizeAgain

SanitizeSpec == SanitizeInit /\ [][SanitizeNext]_vars

(***************************************************************************)
(* WindowsVoiceProvider.normalizeRate (voice/providers/windows.ts).        *)
(***************************************************************************)
\* The rates handed to normalizeRate are the whole numbers of words per
\* minute from -MaxWpm to MaxWpm.
MaxWpm == 400

\* Math.round of the fraction n / d (d > 0): the nearest integer, a half
\* rounding up.
RoundDiv(n, d) == (2 * n + d) \div (2 * d)

\* Math.min, Math.max
Min(a, b) == IF a < b THEN a ELSE b

Max(a, b) == IF a > b THEN a ELSE b

\* Faulty variant of NormalizeRate: the scale is centred on 280 words per
\* minute.
NormalizeRate_Shifted(w) == Max(0 - 10, Min(10, RoundDiv(w - 280, 20)))

\* normalizeRate(wpm): Math.max(-10, Math.min(10, Math.round((wpm - 180) / 20)))
NormalizeRate(w) == Max(0 - 10, Min(10, RoundDiv(w - 180, 20)))

RateInit ==
    /\ wpm \in (0 - MaxWpm)..MaxWpm
    /\ sapiRate = <<>>
    /\ text = <<>> /\ cleaned = <<>> /\ recleaned = <<>>
    /\ ProviderIdle
    /\ ServerIdle
    /\ env = [k \in Kinds |-> "unavailable"]
    /\ providers = <<>> /\ activeProvider = NULL /\ initialized = FALSE
    /\ calls = EmptyBag /\ ncalls = 0
    /\ detections = [k \in Kinds |-> 0] /\ event = NoEvent

\* A caller normalizes the rate.
Normalize ==
    /\ sapiRate = <<>>
    /\ sapiRate' = <<NormalizeRate(wpm)>>
    /\ UNCHANGED <<text, cleaned, recleaned, wpm, managerVars, providerVars, serverVars>>

\* The caller is handed the result, and takes the next rate.
NextRate ==
    /\ sapiRate # <<>>
    /\ wpm < MaxWpm
    /\ wpm' = wpm + 1
    /\ sapiRate' = <<>>
    /\ UNCHANGED <<text, cleaned, recleaned, managerVars, providerVars, serverVars>>

RateNext == Normalize \/ NextRate

RateSpec == RateInit /\ [][RateNext]_vars

(***************************************************************************)
(* One provider used on its own: isAvailable, initialize and speak of the  *)
(* four provider classes (voice/providers/*.ts, ElevenLabsVoiceProvider).  *)
(* A pending call is a record of its number, its operation, the await it   *)
(* stands at, its text, and the temporary file it wrote (0: none).         *)
(***************************************************************************)
\* Number of calls made on the provider in one behaviour.
MaxProviderCalls == 2

\* How far Date.now() advances in one behaviour.
MaxTicks == 1

Platforms == {"darwin", "win32", "linux"}

\* The texts handed to speak: plain, with markup and double quotes, and
\* markup only.
SpeakTexts ==
    { <<"h", "i">>,
      <<"*", "*", "s", "a", "y", "*", "*", " ", "\"", "h", "i", "\"">>,
      <<"<", ">">> }

\* The platform test at the head of isAvailable: the macOS provider wants
\* darwin, the Windows provider win32, the others test nothing.
PlatformMatches(k) ==
    CASE ProviderNames[k] = NameMacOS -> platform = "darwin"
      [] ProviderNames[k] = NameWindows -> platform = "win32"
      [] OTHER -> TRUE

\* How the presence check that isAvailable spawns can end.
CheckOutcomes == {"exit0", "exit1", "spawnError"}

\* Faulty variant of CheckSettles: without the try/catch, the rejection of
\* the awaited promise leaves isAvailable.
CheckSettles_NoCatch(outcome) ==
    IF outcome = "exit0" THEN [status |-> "resolved", result |-> TRUE]
    ELSE [status |-> "rejected", result |-> FALSE]

\* What isAvailable settles with once its presence check has ended: exit
\* code 0 resolves the awaited promise (return true); any other exit and a
\* spawn error reject it, which the catch turns into return false.
CheckSettles(outcome) ==
    IF outcome = "exit0" THEN [status |-> "resolved", result |-> TRUE]
    ELSE [status |-> "resolved", result |-> FALSE]

PCall(op, stage, t, f) ==
    [id |-> pn + 1, op |-> op, stage |-> stage, text |-> t, file |-> f]

\* isAvailable() is called, by a caller (op "isAvailable") or by the
\* provider's initialize() (op "initialize", which assigns the result to
\* `available`).  ElevenLabs returns !!this.apiKey; a native provider
\* returns false on the wrong platform and else spawns its presence check.
DetectCall(op) ==
    /\ pn < MaxProviderCalls
    /\ pn' = pn + 1
    /\ IF ProviderNames[prov.kind] = NameElevenLabs \/ ~PlatformMatches(prov.kind)
       THEN LET result == ProviderNames[prov.kind] = NameElevenLabs /\ prov.apiKey
            IN  /\ pevent' = [NoProviderEvent EXCEPT
                                 !.op = op, !.status = "resolved", !.result = result,
                                 !.outcome = IF ProviderNames[prov.kind] = NameElevenLabs
                                             THEN (IF prov.apiKey THEN "key" ELSE "noKey")
                                             ELSE "platform"]
                /\ prov' = IF op = "initialize"
                           THEN [prov EXCEPT !.available = result] ELSE prov
                /\ UNCHANGED pcalls
       ELSE /\ pcalls' = pcalls \cup {PCall(op, "check", <<>>, 0)}
            /\ pevent' = [NoProviderEvent EXCEPT !.op = op, !.status = "pending"]
            /\ UNCHANGED prov
    /\ UNCHANGED <<files, removals, now, platform, managerVars, functionVars, serverVars>>

\* Faulty variant of DetectSettle: the result of every isAvailable() is
\* stored in `available`, whoever called it.
DetectSettle_AssignAlways(c, outcome) ==
    /\ c \in pcalls
    /\ c.stage = "check"
    /\ LET r == CheckSettles(outcome)
       IN  /\ pevent' = [NoProviderEvent EXCEPT
                            !.op = c.op, !.status = r.status, !.result = r.result,
                            !.outcome = outcome]
           /\ prov' = [prov EXCEPT !.available = r.result]
    /\ pcalls' = pcalls \ {c}
    /\ UNCHANGED <<pn, files, removals, now, platform, managerVars, functionVars, serverVars>>

\* The presence check of a pending isAvailable ends; initialize() assigns
\* the result to `available` (and rejects, leaving the flag, if
\* isAvailable rejected).
DetectSettle(c, outcome) ==
    /\ c \in pcalls
    /\ c.stage = "check"
    /\ LET r == CheckSettles(outcome)
       IN  /\ pevent' = [NoProviderEvent EXCEPT
                            !.op = c.op, !.status = r.status, !.result = r.result,
                            !.outcome = outcome]
           /\ prov' = IF c.op = "initialize" /\ r.status = "resolved"
                      THEN [prov EXCEPT !.available = r.result] ELSE prov
    /\ pcalls' = pcalls \ {c}
    /\ UNCHANGED <<pn, files, removals, now, platform, managerVars, functionVars, serverVars>>

\* Faulty variant of Unavailable: speak does not test the flag.
Unavailable_NoTest(p) == FALSE

\* The guard at the head of speak: !this.available, and for ElevenLabs
\* also !this.apiKey.
Unavailable(p) ==
    \/ ~p.available
    \/ ProviderNames[p.kind] = NameElevenLabs /\ ~p.apiKey

\* Faulty variant of TextToSpeak: the raw text is dispatched.
TextToSpeak_Raw(t) == t

\* const sanitized = this.sanitizeText(text)
TextToSpeak(t) == SanitizeText(t)

RECURSIVE EscapeQuotes(_)
\* sanitized.replace(/"/g, '""')
EscapeQuotes(s) ==
    IF s = <<>> THEN s
    ELSE (IF s[1] = "\"" THEN <<"\"", "\"">> ELSE <<s[1]>>) \o EscapeQuotes(Tail(s))

\* The text as the backend is handed it: the last process argument of
\* `say` and `termux-tts-speak`, the literal of $synth.Speak("...") in the
\* PowerShell script (quotes doubled), the `text` member of the request
\* body of ElevenLabs.
BackendText(k, s) ==
    IF ProviderNames[k] = NameWindows THEN EscapeQuotes(s) ELSE s

\* The options of speak that carry numbers: rate in words per minute,
\* pitch in hundredths (pitch 250 is the number 2.5).  A member that is not
\* passed is undefined.
NoOptions == [hasRate |-> FALSE, rate |-> 0, hasPitch |-> FALSE, pitch |-> 0]

Rates == {0 - MaxWpm, 0, MaxWpm}

Pitches == {0, 5, 250}

SpeakOptions ==
    {NoOptions}
    \cup {[NoOptions EXCEPT !.hasRate = TRUE, !.rate = r] : r \in Rates}
    \cup {[NoOptions EXCEPT !.hasPitch = TRUE, !.pitch = p] : p \in Pitches}
    \cup {[hasRate |-> TRUE, rate |-> MaxWpm, hasPitch |-> TRUE, pitch |-> 250]}

\* `if (options?.rate)`: undefined and 0 are falsy.
Truthy(has, n) == has /\ n # 0

\* Math.max(0.1, Math.min(2.0, x)).toFixed(2), x given in hundredths: the
\* two decimals of the result, as a number of hundredths.
TermuxScale(n, d) == Max(10, Min(200, RoundDiv(100 * n, d)))

\* The rate handed to the backend, <<>> when none is: `-r rate` for say,
\* `$synth.Rate = normalizeRate(rate)` for SAPI, `-r` with rate / 175
\* clamped to 0.1..2.0 (in hundredths) for termux-tts-speak; the request
\* of ElevenLabs carries no rate.
BackendRate(k, o) ==
    IF ~Truthy(o.hasRate, o.rate) THEN <<>>
    ELSE CASE ProviderNames[k] = NameMacOS -> <<o.rate>>
           [] ProviderNames[k] = NameWindows -> <<NormalizeRate(o.rate)>>
           [] ProviderNames[k] = NameAndroid -> <<TermuxScale(o.rate, 175)>>
           [] OTHER -> <<>>

\* The pitch handed to the backend, in hundredths: only termux-tts-speak
\* takes one, clamped to 0.1..2.0.
BackendPitch(k, o) ==
    IF Truthy(o.hasPitch, o.pitch) /\ ProviderNames[k] = NameAndroid
    THEN <<TermuxScale(o.pitch, 100)>>
    ELSE <<>>

\* speak(text, options) is called: it throws while the provider is
\* unavailable, else it sanitizes the text and dispatches it: the native
\* providers spawn their command, ElevenLabs sends its request.
DispatchSpeak(t, o) ==
    /\ pn < MaxProviderCalls
    /\ pn' = pn + 1
    /\ IF Unavailable(prov)
       THEN /\ pevent' = [NoProviderEvent EXCEPT
                             !.op = "speak", !.status = "rejected", !.text = t,
                             !.options = o,
                             !.error = NotAvailableError(prov.kind)]
            /\ UNCHANGED pcalls
       ELSE /\ pcalls' = pcalls \cup
                  {PCall("speak",
                         IF ProviderNames[prov.kind] = NameElevenLabs
                         THEN "http" ELSE "process", t, 0)}
            /\ pevent' = [NoProviderEvent EXCEPT
                             !.op = "speak", !.status = "pending", !.text = t,
                             !.dispatched = TRUE, !.options = o,
                             !.rate = BackendRate(prov.kind, o),
                             !.pitch = BackendPitch(prov.kind, o),
                             !.handed = BackendText(prov.kind, TextToSpeak(t))]
    /\ UNCHANGED <<prov, files, removals, now, platform, managerVars, functionVars, serverVars>>

\* speak has settled: resolved when err is "", else rejected with err.
SpeakSettled(c, outcome, err) ==
    [NoProviderEvent EXCEPT
        !.op = "speak", !.status = IF err = "" THEN "resolved" ELSE "rejected",
        !.error = err, !.outcome = outcome, !.text = c.text, !.file = c.file]

\* The command a native provider spawned exits, or could not be spawned.
ProcessSettle(c, outcome) ==
    /\ c \in pcalls
    /\ c.stage = "process"
    /\ outcome \in SpeakOutcomes(prov.kind)
    /\ pevent' = SpeakSettled(c, outcome, ProviderSpeak(prov.kind, outcome))
    /\ pcalls' = pcalls \ {c}
    /\ UNCHANGED <<prov, pn, files, removals, now, platform, managerVars, functionVars, serverVars>>

\* How the request of ElevenLabs can end: a 2xx response, another status,
\* or no response.
HttpOutcomes == {"ok", "httpError", "fetchError"}

\* The non-2xx statuses and the bodies an answer of ElevenLabs may have.
ErrorStatuses == {401, 500}

ErrorBodies == {"", "quota_exceeded"}

\* Faulty variant of HttpSettle: the audio file is written whatever the
\* status of the response.
HttpSettle_WriteFirst(c, outcome) ==
    /\ c \in pcalls
    /\ c.stage = "http"
    /\ outcome \in HttpOutcomes
    /\ IF outcome = "ok"
       THEN /\ files' = files \cup {now}
            /\ pcalls' = (pcalls \ {c}) \cup {[c EXCEPT !.stage = "detect", !.file = now]}
            /\ pevent' = [NoProviderEvent EXCEPT
                             !.op = "speak", !.status = "pending", !.text = c.text,
                             !.file = now]
       ELSE /\ pcalls' = pcalls \ {c}
            /\ files' = files \cup {now}
            /\ pevent' = SpeakSettled(c, outcome,
                             IF outcome = "httpError"
                             THEN ProviderSpeak(prov.kind, "httpError")
                             ELSE "fetch failed")
    /\ UNCHANGED <<prov, pn, removals, now, platform, managerVars, functionVars, serverVars>>

\* The request of ElevenLabs ends.  Without a 2xx response speak rejects
\* (for a non-2xx answer with `ElevenLabs API error: ${status} -
\* ${errorText}`, whose two values are the event's detail);
\* with one, playAudio names its temporary file after Date.now(), writes
\* the audio to it, and looks for an audio player.
HttpSettle(c, outcome) ==
    /\ c \in pcalls
    /\ c.stage = "http"
    /\ outcome \in HttpOutcomes
    /\ IF outcome = "ok"
       THEN /\ files' = files \cup {now}
            /\ pcalls' = (pcalls \ {c}) \cup {[c EXCEPT !.stage = "detect", !.file = now]}
            /\ pevent' = [NoProviderEvent EXCEPT
                             !.op = "speak", !.status = "pending", !.text = c.text,
                             !.file = now]
       ELSE /\ pcalls' = pcalls \ {c}
            /\ IF outcome = "httpError"
               THEN \E st \in ErrorStatuses, body \in ErrorBodies :
                       pevent' = [SpeakSettled(c, outcome,
                                      ProviderSpeak(prov.kind, "httpError"))
                                     EXCEPT !.detail = <<st, body>>]
               ELSE pevent' = SpeakSettled(c, outcome, "fetch failed")
            /\ UNCHANGED files
    /\ UNCHANGED <<prov, pn, removals, now, platform, managerVars, functionVars, serverVars>>

\* detectAudioPlayer() returns: with no player speak rejects, else the
\* player is spawned on the temporary file.
PlayerDetected(c, found) ==
    /\ c \in pcalls
    /\ c.stage = "detect"
    /\ IF found
       THEN /\ pcalls' = (pcalls \ {c}) \cup {[c EXCEPT !.stage = "play"]}
            /\ pevent' = [NoProviderEvent EXCEPT
                             !.op = "speak", !.status = "pending", !.text = c.text,
                             !.file = c.file]
       ELSE /\ pcalls' = pcalls \ {c}
            /\ pevent' = SpeakSettled(c, "noPlayer", ProviderSpeak(prov.kind, "noPlayer"))
    /\ UNCHANGED <<prov, pn, files, removals, now, platform, managerVars, functionVars, serverVars>>

\* How the audio player can end.
PlayerOutcomes == {"played", "playerExit1", "playerError"}

\* The audio player ends.  On its exit `rm` is spawned on the temporary
\* file, without waiting for it, and speak resolves (code 0) or rejects;
\* when the player could not be spawned, speak rejects.
PlayerSettle(c, outcome) ==
    /\ c \in pcalls
    /\ c.stage = "play"
    /\ outcome \in PlayerOutcomes
    /\ removals' = IF outcome = "playerError" THEN removals ELSE removals \cup {c.file}
    /\ pevent' = SpeakSettled(c, outcome, ProviderSpeak(prov.kind, outcome))
    /\ pcalls' = pcalls \ {c}
    /\ UNCHANGED <<prov, pn, files, now, platform, managerVars, functionVars, serverVars>>

\* A spawned `rm` runs.
RemoveRuns(f) ==
    /\ f \in removals
    /\ files' = files \ {f}
    /\ removals' = removals \ {f}
    /\ pevent' = [NoProviderEvent EXCEPT !.op = "rm", !.file = f]
    /\ UNCHANGED <<prov, pcalls, pn, now, platform, managerVars, functionVars, serverVars>>

\* A millisecond passes.
Tick ==
    /\ now <= MaxTicks
    /\ now' = now + 1
    /\ pevent' = [NoProviderEvent EXCEPT !.op = "tick"]
    /\ UNCHANGED <<prov, pcalls, pn, files, removals, platform, managerVars, functionVars, serverVars>>

\* getVoices() is called on the provider: an unavailable provider, macOS
\* and Android answer at once; Windows spawns PowerShell and ElevenLabs
\* fetches its catalogue.
EnumCall ==
    /\ pn < MaxProviderCalls
    /\ pn' = pn + 1
    /\ IF Unavailable(prov) \/ EnumOutcomes(prov.kind) = {"static"}
       THEN LET r == ProviderGetVoices(prov.kind, ~Unavailable(prov), "static", <<>>)
            IN  pevent' = [NoProviderEvent EXCEPT
                              !.op = "getVoices", !.status = r.status,
                              !.error = r.error, !.outcome = "static"]
            /\ UNCHANGED pcalls
       ELSE /\ pcalls' = pcalls \cup {PCall("getVoices", "voices", <<>>, 0)}
            /\ pevent' = [NoProviderEvent EXCEPT
                             !.op = "getVoices", !.status = "pending"]
    /\ UNCHANGED <<prov, files, removals, now, platform, managerVars, functionVars, serverVars>>

\* The enumeration behind a pending getVoices ends.
EnumSettle(c, outcome) ==
    /\ c \in pcalls
    /\ c.stage = "voices"
    /\ outcome \in EnumOutcomes(prov.kind)
    /\ LET r == ProviderGetVoices(prov.kind, TRUE, outcome, <<>>)
       IN  pevent' = [NoProviderEvent EXCEPT
                         !.op = "getVoices", !.status = r.status,
                         !.error = r.error, !.outcome = outcome]
    /\ pcalls' = pcalls \ {c}
    /\ UNCHANGED <<prov, pn, files, removals, now, platform, managerVars, functionVars, serverVars>>

\* A provider as constructed (available = false; ElevenLabs with or
\* without an API key), on some platform.  Date.now() is positive.
ProviderInit ==
    /\ prov \in {[kind |-> k, available |-> FALSE, apiKey |-> key] :
                    k \in Kinds, key \in BOOLEAN}
    /\ prov.apiKey => ProviderNames[prov.kind] = NameElevenLabs
    /\ platform \in Platforms
    /\ pcalls = {} /\ pn = 0 /\ files = {} /\ removals = {} /\ now = 1
    /\ pevent = NoProviderEvent
    /\ FunctionsIdle
    /\ ServerIdle
    /\ env = [k \in Kinds |-> "unavailable"]
    /\ providers = <<>> /\ activeProvider = NULL /\ initialized = FALSE
    /\ calls = EmptyBag /\ ncalls = 0
    /\ detections = [k \in Kinds |-> 0] /\ event = NoEvent

ProviderNext ==
    \/ \E op \in {"isAvailable", "initialize"} : DetectCall(op)
    \/ \E c \in pcalls, o \in CheckOutcomes : DetectSettle(c, o)
    \/ \E t \in SpeakTexts, o \in SpeakOptions : DispatchSpeak(t, o)
    \/ EnumCall
    \/ \E c \in pcalls, o \in AllEnumOutcomes : EnumSettle(c, o)
    \/ \E c \in pcalls, o \in AllSpeakOutcomes : ProcessSettle(c, o)
    \/ \E c \in pcalls, o \in HttpOutcomes : HttpSettle(c, o)
    \/ \E c \in pcalls, found \in BOOLEAN : PlayerDetected(c, found)
    \/ \E c \in pcalls, o \in PlayerOutcomes : PlayerSettle(c, o)
    \/ \E f \in removals : RemoveRuns(f)
    \/ Tick

ProviderSpec == ProviderInit /\ [][ProviderNext]_vars

\* The ElevenLabs provider of a server that was given an API key, once its
\* initialize() has resolved (available = true), with MaxProviderCalls
\* speak calls to come.
PlayInit ==
    /\ prov \in {[kind |-> k, available |-> TRUE, apiKey |-> TRUE] :
                    k \in {j \in Kinds : ProviderNames[j] = NameElevenLabs}}
    /\ platform \in Platforms
    /\ pcalls = {} /\ pn = 0 /\ files = {} /\ removals = {} /\ now = 1
    /\ pevent = NoProviderEvent
    /\ FunctionsIdle
    /\ ServerIdle
    /\ env = [k \in Kinds |-> "unavailable"]
    /\ providers = <<>> /\ activeProvider = NULL /\ initialized = FALSE
    /\ calls = EmptyBag /\ ncalls = 0
    /\ detections = [k \in Kinds |-> 0] /\ event = NoEvent

\* The steps of the speak calls of ElevenLabs.
PlayNext ==
    \/ \E t \in SpeakTexts, o \in SpeakOptions : DispatchSpeak(t, o)
    \/ \E c \in pcalls, o \in HttpOutcomes : HttpSettle(c, o)
    \/ \E c \in pcalls, found \in BOOLEAN : PlayerDetected(c, found)
    \/ \E c \in pcalls, o \in PlayerOutcomes : PlayerSettle(c, o)
    \/ \E f \in removals : RemoveRuns(f)
    \/ Tick

PlaySpec == PlayInit /\ [][PlayNext]_vars

(***************************************************************************)
(* The chat routes: POST /api/chat (routes) and the message handler of     *)
(* /ws/chat (server.ts).  Both await pai.chat(), answer the client, and    *)
(* start voice.speak() without awaiting it.                                *)
(***************************************************************************)
\* Number of chat requests in one behaviour.
MaxRequests == 2

Routes == {"http", "ws"}

\* How pai.chat() can settle.
ChatOutcomes == {"response", "throws"}

\* What the client is sent: the response of pai.chat(), or {error}; over
\* HTTP with status 200 or 500, over the socket (status 0) as a message.
Reply(route, outcome) ==
    [status |-> IF route = "ws" THEN 0
                ELSE IF outcome = "response" THEN 200 ELSE 500,
     body |-> IF outcome = "response" THEN "response" ELSE "error"]

\* Faulty variant of ShouldSpeak: the response is always spoken.
ShouldSpeak_Always(voiceEnabled) == TRUE

\* chatRequest.voiceEnabled && voice.isAvailable()
ShouldSpeak(voiceEnabled) == voiceEnabled /\ voiceUp

\* A chat request arrives (a POST, or a socket message that parses) and
\* pai.chat() is awaited.
ChatArrives(route, voiceEnabled) ==
    /\ rn < MaxRequests
    /\ rn' = rn + 1
    /\ reqs' = reqs \cup {[id |-> rn + 1, route |-> route,
                           voiceEnabled |-> voiceEnabled]}
    /\ replies' = Append(replies, <<>>)
    /\ revent' = [NoRouteEvent EXCEPT !.op = "request", !.id = rn + 1]
    /\ UNCHANGED <<voiceUp, bgSpeaks>>
    /\ UNCHANGED <<managerVars, functionVars, providerVars, deviceVars, coreVars>>

\* A socket message arrives that JSON.parse rejects: the catch sends
\* {error}.
WsBadMessage ==
    /\ rn < MaxRequests
    /\ rn' = rn + 1
    /\ replies' = Append(replies, <<Reply("ws", "throws")>>)
    /\ revent' = [NoRouteEvent EXCEPT !.op = "badMessage", !.id = rn + 1,
                                      !.outcome = "throws"]
    /\ UNCHANGED <<voiceUp, reqs, bgSpeaks>>
    /\ UNCHANGED <<managerVars, functionVars, providerVars, deviceVars, coreVars>>

\* pai.chat() settles.  With a response the handler starts speak in the
\* background when ShouldSpeak, and answers with the response (HTTP
\* returns it after starting speak, the socket sends it before); when
\* pai.chat() throws the catch answers {error} and nothing is spoken.
ChatSettle(r, outcome) ==
    /\ r \in reqs
    /\ outcome \in ChatOutcomes
    /\ reqs' = reqs \ {r}
    /\ replies' = [replies EXCEPT ![r.id] = Append(@, Reply(r.route, outcome))]
    /\ bgSpeaks' = IF outcome = "response" /\ ShouldSpeak(r.voiceEnabled)
                   THEN bgSpeaks \cup {[id |-> r.id, voiceEnabled |-> r.voiceEnabled]}
                   ELSE bgSpeaks
    /\ revent' = [NoRouteEvent EXCEPT !.op = "reply", !.id = r.id,
                                      !.outcome = outcome]
    /\ UNCHANGED <<voiceUp, rn>>
    /\ UNCHANGED <<managerVars, functionVars, providerVars, deviceVars, coreVars>>

\* A background speak settles; its rejection ends in .catch, which logs.
BgSpeakSettle(s, outcome) ==
    /\ s \in bgSpeaks
    /\ outcome \in {"resolved", "rejected"}
    /\ bgSpeaks' = bgSpeaks \ {s}
    /\ revent' = [NoRouteEvent EXCEPT !.op = "speakSettled", !.id = s.id,
                                      !.outcome = outcome]
    /\ UNCHANGED <<voiceUp, reqs, replies, rn>>
    /\ UNCHANGED <<managerVars, functionVars, providerVars, deviceVars, coreVars>>

\* The server listens, its Manager with or without an active provider.
RouteInit ==
    /\ voiceUp \in BOOLEAN
    /\ reqs = {} /\ replies = <<>> /\ bgSpeaks = {} /\ rn = 0
    /\ revent = NoRouteEvent
    /\ ManagerIdle /\ FunctionsIdle /\ ProviderIdle /\ DevicesIdle /\ CoreIdle

RouteNext ==
    \/ \E route \in Routes, v \in BOOLEAN : ChatArrives(route, v)
    \/ WsBadMessage
    \/ \E r \in reqs, o \in ChatOutcomes : ChatSettle(r, o)
    \/ \E s \in bgSpeaks, o \in {"resolved", "rejected"} : BgSpeakSettle(s, o)

RouteSpec == RouteInit /\ [][RouteNext]_vars

(***************************************************************************)
(* DeviceAuthManager.  A device is the record of its `trusted` member, a   *)
(* fingerprint is the number of its registration (the hash of the device   *)
(* and Date.now()), the storage file holds what saveDevices last wrote.    *)
(***************************************************************************)
\* Number of devices registered in one behaviour.
MaxDevices == 2

\* Number of calls made on the DeviceAuthManager in one behaviour.
MaxDeviceCalls == 4

Fingerprints == 1..MaxDevices

\* generateDeviceToken(fingerprint): the hash of fingerprint|secret|now.
GenerateDeviceToken(f) == <<"sha256", f>>

\* map.set(key, value), map.delete(key)
MapSet(map, key, value) == (key :> value) @@ map

MapDelete(map, key) == [k \in DOMAIN map \ {key} |-> map[k]]

\* The object saveDevices serializes: the devices and the tokens.
StorageData(devs, toks) == [devices |-> devs, tokens |-> toks]

DCall(op, stage, data, f) ==
    [id |-> dn + 1, op |-> op, stage |-> stage, data |-> data, fingerprint |-> f]

\* registerDevice(device) up to the write that saveDevices awaits.
RegisterDevice ==
    /\ dn < MaxDeviceCalls /\ nfp < MaxDevices
    /\ dn' = dn + 1 /\ nfp' = nfp + 1
    /\ LET f == nfp + 1
       IN  /\ trustedDevices' = MapSet(trustedDevices, f, [trusted |-> TRUE])
           /\ deviceTokens' = MapSet(deviceTokens, f, GenerateDeviceToken(f))
           /\ dcalls' = dcalls \cup
                 {DCall("registerDevice", "write",
                        StorageData(trustedDevices', deviceTokens'), f)}
           /\ devent' = [NoDeviceEvent EXCEPT !.op = "registering", !.fingerprint = f]
    /\ UNCHANGED <<storage, revoked>>
    /\ UNCHANGED <<managerVars, functionVars, providerVars, routeVars, coreVars>>

\* saveDevices() is called, by a caller or by the auto-save timer, up to
\* its write.
SaveDevices ==
    /\ dn < MaxDeviceCalls
    /\ dn' = dn + 1
    /\ dcalls' = dcalls \cup
          {DCall("saveDevices", "write", StorageData(trustedDevices, deviceTokens), 0)}
    /\ devent' = [NoDeviceEvent EXCEPT !.op = "saving"]
    /\ UNCHANGED <<trustedDevices, deviceTokens, storage, nfp, revoked>>
    /\ UNCHANGED <<managerVars, functionVars, providerVars, routeVars, coreVars>>

\* The write of a saveDevices ends: done, or failed and caught.  A
\* registerDevice then returns its device and token.
WriteSettle(c, ok) ==
    /\ c \in dcalls
    /\ c.stage = "write"
    /\ storage' = IF ok THEN <<c.data>> ELSE storage
    /\ dcalls' = dcalls \ {c}
    /\ devent' = IF c.op = "registerDevice"
                 THEN [NoDeviceEvent EXCEPT
                          !.op = "registerDevice", !.found = TRUE,
                          !.fingerprint = c.fingerprint,
                          !.token = GenerateDeviceToken(c.fingerprint)]
                 ELSE [NoDeviceEvent EXCEPT !.op = "saveDevices"]
    /\ UNCHANGED <<trustedDevices, deviceTokens, dn, nfp, revoked>>
    /\ UNCHANGED <<managerVars, functionVars, providerVars, routeVars, coreVars>>

\* verifyDevice(token): the device whose token it is, if that device is
\* trusted, else null.
VerifyDevice(token) ==
    /\ dn < MaxDeviceCalls
    /\ dn' = dn + 1
    /\ devent' = [NoDeviceEvent EXCEPT
                     !.op = "verifyDevice", !.token = token,
                     !.found = \E f \in DOMAIN deviceTokens :
                                  /\ deviceTokens[f] = token
                                  /\ f \in DOMAIN trustedDevices
                                  /\ trustedDevices[f].trusted]
    /\ UNCHANGED <<trustedDevices, deviceTokens, storage, dcalls, nfp, revoked>>
    /\ UNCHANGED <<managerVars, functionVars, providerVars, routeVars, coreVars>>

\* revokeDevice(fingerprint): a known device loses `trusted` and its
\* token, in memory.
RevokeDevice(f) ==
    /\ dn < MaxDeviceCalls
    /\ dn' = dn + 1
    /\ IF f \in DOMAIN trustedDevices
       THEN /\ trustedDevices' = [trustedDevices EXCEPT ![f].trusted = FALSE]
            /\ deviceTokens' = MapDelete(deviceTokens, f)
            /\ revoked' = revoked \cup {f}
            /\ devent' = [NoDeviceEvent EXCEPT
                             !.op = "revokeDevice", !.found = TRUE, !.fingerprint = f]
       ELSE /\ devent' = [NoDeviceEvent EXCEPT
                             !.op = "revokeDevice", !.fingerprint = f]
            /\ UNCHANGED <<trustedDevices, deviceTokens, revoked>>
    /\ UNCHANGED <<storage, dcalls, nfp>>
    /\ UNCHANGED <<managerVars, functionVars, providerVars, routeVars, coreVars>>

\* loadDevices() is called, up to `await Bun.file(storageFile).exists()`.
LoadDevices ==
    /\ dn < MaxDeviceCalls
    /\ dn' = dn + 1
    /\ dcalls' = dcalls \cup {DCall("loadDevices", "exists", <<>>, 0)}
    /\ devent' = [NoDeviceEvent EXCEPT !.op = "loading"]
    /\ UNCHANGED <<trustedDevices, deviceTokens, storage, nfp, revoked>>
    /\ UNCHANGED <<managerVars, functionVars, providerVars, routeVars, coreVars>>

\* exists() has answered: without a file loadDevices is done, else it
\* awaits the file's json().
LoadExists(c) ==
    /\ c \in dcalls
    /\ c.stage = "exists"
    /\ IF storage = <<>>
       THEN /\ dcalls' = dcalls \ {c}
            /\ devent' = [NoDeviceEvent EXCEPT !.op = "loadDevices"]
       ELSE /\ dcalls' = (dcalls \ {c}) \cup {[c EXCEPT !.stage = "json"]}
            /\ devent' = [NoDeviceEvent EXCEPT !.op = "loading"]
    /\ UNCHANGED <<trustedDevices, deviceTokens, storage, dn, nfp, revoked>>
    /\ UNCHANGED <<managerVars, functionVars, providerVars, routeVars, coreVars>>

\* json() has answered: both maps are cleared and filled from the file;
\* when it threw, the catch leaves them.
LoadJson(c, ok) ==
    /\ c \in dcalls
    /\ c.stage = "json"
    /\ IF ok
       THEN /\ trustedDevices' = storage[1].devices
            /\ deviceTokens' = storage[1].tokens
       ELSE UNCHANGED <<trustedDevices, deviceTokens>>
    /\ dcalls' = dcalls \ {c}
    /\ devent' = [NoDeviceEvent EXCEPT !.op = "loadDevices", !.found = ok]
    /\ UNCHANGED <<storage, dn, nfp, revoked>>
    /\ UNCHANGED <<managerVars, functionVars, providerVars, routeVars, coreVars>>

\* The DeviceAuthManager as constructed, with no storage file yet.
DeviceInit ==
    /\ DevicesIdle
    /\ ManagerIdle /\ FunctionsIdle /\ ProviderIdle /\ RoutesIdle /\ CoreIdle

DeviceNext ==
    \/ RegisterDevice
    \/ SaveDevices
    \/ \E c \in dcalls, ok \in BOOLEAN : WriteSettle(c, ok)
    \/ \E f \in Fingerprints : VerifyDevice(GenerateDeviceToken(f))
    \/ \E f \in Fingerprints : RevokeDevice(f)
    \/ LoadDevices
    \/ \E c \in dcalls : LoadExists(c)
    \/ \E c \in dcalls, ok \in BOOLEAN : LoadJson(c, ok)

DeviceSpec == DeviceInit /\ [][DeviceNext]_vars

(***************************************************************************)
(* PAICore: the agent registry.  The agents directory is missing,          *)
(* unreadable, or holds files; a file is its stem, its extension and what  *)
(* reading it gives: a text with YAML frontmatter, a text without, or an   *)
(* error.                                                                  *)
(***************************************************************************)
\* Number of files in the agents directory.
MaxAgentFiles == 2

\* Number of chat() calls in one behaviour.
MaxChats == 2

DefaultAgent == "kai"

AgentFiles ==
    [stem : {DefaultAgent, "engineer"}, ext : {".md", ".txt"},
     content : {"frontmatter", "plain", "unreadable"}]

\* The states of the agents directory: no two files share a name.
AgentDirs ==
    {[state |-> s, files |-> {}] : s \in {"missing", "unreadable"}}
    \cup {[state |-> "ok", files |-> fs] :
            fs \in {x \in SUBSET AgentFiles :
                      /\ Cardinality(x) <= MaxAgentFiles
                      /\ \A f \in x, g \in x :
                            (f.stem = g.stem /\ f.ext = g.ext) => f = g}}

\* The agentType values of a chat request; "" is a request without one.
AgentTypes == {"", DefaultAgent, "engineer", "ghost"}

\* loadAgents(): readdirSync throws on a missing or unreadable directory
\* and the outer catch ends the method; else every .md file that can be
\* read and has frontmatter is registered under its stem, and then the
\* default agent is added if the registry has none of its name.
LoadAgents(dir, registry) ==
    IF dir.state # "ok" THEN registry
    ELSE LET parsed == {f \in dir.files : f.ext = ".md" /\ f.content = "frontmatter"}
             loaded == registry \cup {[name |-> f.stem, from |-> "file"] : f \in parsed}
         IN  IF \E a \in loaded : a.name = DefaultAgent THEN loaded
             ELSE loaded \cup {[name |-> DefaultAgent, from |-> "default"]}

\* PAICore.initialize(): loadSkills(), then loadAgents().
CoreInitialize ==
    /\ ~coreReady
    /\ agents' = LoadAgents(agentsDir, agents)
    /\ coreReady' = TRUE
    /\ cevent' = [NoCoreEvent EXCEPT !.op = "initialize", !.status = "resolved"]
    /\ UNCHANGED <<agentsDir, cn>>
    /\ UNCHANGED <<managerVars, functionVars, providerVars, routeVars, deviceVars>>

\* chat(request): it throws when the registry has no agent of the
\* requested name (kai without an agentType), else it answers.
Chat(agentType) ==
    /\ cn < MaxChats
    /\ cn' = cn + 1
    /\ LET name == IF agentType = "" THEN DefaultAgent ELSE agentType
       IN  cevent' = IF \E a \in agents : a.name = name
                     THEN [NoCoreEvent EXCEPT !.op = "chat", !.status = "resolved",
                                              !.agentType = agentType]
                     ELSE [NoCoreEvent EXCEPT !.op = "chat", !.status = "rejected",
                                              !.agentType = agentType,
                                              !.error = "Agent not found"]
    /\ UNCHANGED <<agentsDir, agents, coreReady>>
    /\ UNCHANGED <<managerVars, functionVars, providerVars, routeVars, deviceVars>>

\* The PAICore as constructed, over some agents directory.
CoreInit ==
    /\ agentsDir \in AgentDirs
    /\ agents = {} /\ coreReady = FALSE /\ cn = 0
    /\ cevent = NoCoreEvent
    /\ ManagerIdle /\ FunctionsIdle /\ ProviderIdle /\ RoutesIdle /\ DevicesIdle

CoreNext ==
    \/ CoreInitialize
    \/ \E a \in AgentTypes : Chat(a)

CoreSpec == CoreInit /\ [][CoreNext]_vars

(***************************************************************************)
(* Properties.                                                             *)
(***************************************************************************)
\* The step just taken was the return of an initialize() that ran the
\* detection (an explicit call, or the one speak/getVoices make lazily).
InitializeRan == event.op = "initialize" /\ event.ran /\ event.status = "resolved"

\* The native provider kinds, by the README's table: all but ElevenLabs.
Natives == {k \in Kinds : ProviderNames[k] # NameElevenLabs}

CloudKind == CHOOSE k \in Kinds : ProviderNames[k] = NameElevenLabs

\* The kind the preference policy picks for the host's availability
\* results (0: none): the first available native in construction order,
\* else ElevenLabs if available.
PolicyKind ==
    LET avail == {k \in Natives : env[k] = "available"}
    IN  IF avail # {} THEN CHOOSE k \in avail : \A j \in avail : k <= j
        ELSE IF env[CloudKind] = "available" THEN CloudKind
        ELSE 0

\* Some entry of the available set has this name, ignoring case.
InAvailableSet(name) ==
    \E i \in DOMAIN providers :
        ToLowerCase(NameOf(providers[i])) = ToLowerCase(name)

\* C1: when an initialize() that ran the detection returns, the active
\* provider is the first available native provider in construction order,
\* else ElevenLabs if it is available, else none; whatever the interleaving
\* of the pending calls.
C1_PolicySelection ==
    InitializeRan =>
        /\ activeProvider.kind = PolicyKind
        /\ (PolicyKind = 0) = (activeProvider = NULL)

\* C1 witness: macOS is unavailable, Windows and ElevenLabs are available,
\* and initialize() has just selected Windows.
C1_Witness ==
    /\ InitializeRan
    /\ env[1] = "unavailable" /\ env[2] = "available" /\ env[4] = "available"
    /\ GetActiveProvider = NameWindows

\* C2: in every reachable state the active provider is none or a provider
\* whose `available` flag is true.
C2_ActiveIsAvailable == activeProvider = NULL \/ activeProvider.available

\* C2 witness: on a host where some provider is unavailable, setProvider
\* has just made a provider active.
C2_Witness ==
    /\ event.op = "setProvider" /\ event.status = "resolved"
    /\ activeProvider # NULL
    /\ \E k \in Kinds : env[k] = "unavailable"

NoneAvailable == \A k \in Kinds : env[k] # "available"

\* C3: when no provider reports available, every speak fails with 'No
\* voice provider available' (nothing is dispatched) and every getVoices
\* resolves with the empty list.
C3_NoProvider ==
    NoneAvailable =>
        /\ event.op = "speak" =>
               event.status = "rejected" /\ event.error = ErrNoProvider
        /\ event.op = "getVoices" =>
               event.status = "resolved" /\ event.voices = <<>>

\* C3 witness: no provider is available, initialize() was called
\* explicitly before, and speak has just failed.
C3_Witness ==
    /\ NoneAvailable
    /\ ncalls = 2 /\ calls = EmptyBag
    /\ event.op = "speak" /\ event.status = "rejected"

\* C4: setProvider with a name that matches no provider of the available
\* set (ignoring case) throws and leaves the active provider as it was.
C4_UnknownNameThrows ==
    [][ (event'.op = "setProvider" /\ ~InAvailableSet(event'.name)) =>
            (event'.status = "rejected" /\ activeProvider' = activeProvider) ]_vars

\* C4 witness: a provider is active and setProvider("Siri") has just
\* thrown.
C4_Witness ==
    /\ event.op = "setProvider" /\ event.status = "rejected"
    /\ event.name = <<"S","i","r","i">>
    /\ activeProvider # NULL

\* C5: setProvider with a name equal, ignoring case, to the name of a
\* provider of the available set succeeds, and getActiveProvider() then
\* returns that provider's name.
C5_KnownNameSwitches ==
    (event.op = "setProvider" /\ InAvailableSet(event.name)) =>
        /\ event.status = "resolved"
        /\ ToLowerCase(GetActiveProvider) = ToLowerCase(event.name)
        /\ \E i \in DOMAIN providers : NameOf(providers[i]) = GetActiveProvider

\* C5 witness: a native provider is available (the policy's pick) and
\* setProvider("elevenlabs") has just made ElevenLabs active.
C5_Witness ==
    /\ event.op = "setProvider" /\ event.status = "resolved"
    /\ event.name = <<"e","l","e","v","e","n","l","a","b","s">>
    /\ GetActiveProvider = NameElevenLabs
    /\ PolicyKind \in Natives

\* The errors a provider's speak can reject with once dispatched.
ProviderSpeakErrors(k) == {ProviderSpeak(k, o) : o \in SpeakOutcomes(k)} \ {""}

\* C6: when the speak of the provider a call was dispatched to fails, the
\* Manager's speak rejects with the provider's error, and the active
\* provider and the available set are unchanged.
C6_FailedSpeakKeepsProvider ==
    [][ (event'.op = "speak" /\ event'.status = "rejected"
             /\ event'.target # NULL) =>
            /\ event'.error \in ProviderSpeakErrors(event'.target.kind)
            /\ activeProvider' = activeProvider
            /\ providers' = providers ]_vars

\* C6 witness: the macOS provider's `say` has just exited non-zero and
\* macOS is still the active provider.
C6_Witness ==
    /\ event.op = "speak" /\ event.status = "rejected"
    /\ event.error = "say command exited with code 1"
    /\ activeProvider = event.target
    /\ GetActiveProvider = NameMacOS

\* C7: getVoices never rejects: it resolves (with the empty list when the
\* enumeration fails) for every provider.  The Windows provider rejects
\* when PowerShell exits non-zero or cannot be spawned.
C7_GetVoicesNeverRejects == event.op = "getVoices" => event.status # "rejected"

\* The names getProviders() lists.
ListedNames == {GetProviders[i].name : i \in DOMAIN GetProviders}

C9_DetectOnce ==
    /\ \A k \in Kinds : detections[k] <= 1
    /\ \A i, j \in DOMAIN providers :
           i # j => providers[i].kind # providers[j].kind

\* C10: initialize() never throws; when a provider's initialize() raises,
\* that provider is left out of the available set, every other provider is
\* still initialized (its flag holds its detection result, and it is in
\* the available set when that is true), the active provider is the
\* policy's pick among them, and the Manager is initialized.  Only speak
\* reports that there is no provider.
C10_InitializeNeverThrows ==
    /\ event.op = "initialize" => event.status # "rejected"
    /\ event.error = ErrNoProvider => event.op = "speak"
    /\ InitializeRan =>
           /\ initialized
           /\ \A k \in Kinds :
                  /\ detections[k] >= 1
                  /\ env[k] = "raises" => ProviderNames[k] \notin ListedNames
                  /\ env[k] # "raises" => event.flags[k] = (env[k] = "available")
                  /\ env[k] = "available" => ProviderNames[k] \in ListedNames
           /\ activeProvider.kind = PolicyKind

\* C10 witness: the macOS provider's initialize() raised, Windows was
\* still detected available and is the active provider after initialize().
C10_Witness ==
    /\ InitializeRan
    /\ env[1] = "raises" /\ env[2] = "available"
    /\ NameMacOS \notin ListedNames
    /\ GetActiveProvider = NameWindows

\* C12: sanitizeText is the seven passes in their fixed order (angle
\* brackets, '**', '*', backticks, heading markers, links, trim), and on
\* the documented example it returns the documented result.
C12_SanitizeExample ==
    cleaned # <<>> =>
        /\ cleaned[1] = Trim(RewriteLinks(StripHeadings(StripTicks(StripItalic(
                            StripBold(StripAngles(text)))))))
        /\ text = ExampleText => cleaned[1] = ExampleClean

\* C12 witness: the documented example has been sanitized to the
\* documented result.
C12_Witness == text = ExampleText /\ cleaned = <<ExampleClean>>

LinkRewritten(s) ==
    LET h == StripHeadings(StripTicks(StripItalic(StripBold(StripAngles(s)))))
    IN  RewriteLinks(h) # h

\* The number of '#' in the text.
Hashes(s) == Cardinality({i \in DOMAIN s : s[i] = "#"})

C14_RateExamples ==
    sapiRate # <<>> =>
        /\ wpm = 180 => sapiRate[1] = 0
        /\ wpm = 200 => sapiRate[1] = 1
        /\ wpm = 80 => sapiRate[1] = 0 - 10
        /\ wpm = 400 => sapiRate[1] = 10

\* C14, amended: normalizeRate maps 180 to 0, 200 to 1, 80 to -5 (no clamp
\* applies) and 400 to 10 (clamped); every result lies in -10..10, and the
\* lower clamp applies to the rates below -10.
C14_RateExamplesAmended ==
    sapiRate # <<>> =>
        /\ wpm = 180 => sapiRate[1] = 0
        /\ wpm = 200 => sapiRate[1] = 1
        /\ wpm = 80 => sapiRate[1] = 0 - 5
        /\ wpm = 400 => sapiRate[1] = 10
        /\ sapiRate[1] \in (0 - 10)..10
        /\ wpm < 0 - 10 => sapiRate[1] = 0 - 10

\* C14 witness: normalizeRate(80) has returned -5.
C14_Witness == wpm = 80 /\ sapiRate = <<0 - 5>>

\* C11: whatever a provider's speak dispatches, the text its backend is
\* handed is sanitizeText(text) (in the PowerShell script with its double
\* quotes doubled), and not the raw text where the two differ.
C11_BackendGetsSanitized ==
    (pevent.op = "speak" /\ pevent.dispatched) =>
        /\ pevent.handed = BackendText(prov.kind, SanitizeText(pevent.text))
        /\ SanitizeText(pevent.text) # pevent.text =>
               pevent.handed # BackendText(prov.kind, pevent.text)

\* C11 witness: the Windows provider has dispatched a text with markup
\* and double quotes; the script holds the text without the markup.
C11_Witness ==
    /\ pevent.op = "speak" /\ pevent.dispatched
    /\ ProviderNames[prov.kind] = NameWindows
    /\ pevent.text =
           <<"*", "*", "s", "a", "y", "*", "*", " ", "\"", "h", "i", "\"">>
    /\ pevent.handed = <<"s", "a", "y", " ", "\"", "\"", "h", "i", "\"", "\"">>

\* C15: when ElevenLabs' speak resolves, the temporary audio file of that
\* call no longer exists.  (`rm` is only spawned by then, it has not run.)
C15_TempFileGone ==
    (pevent.op = "speak" /\ pevent.status = "resolved"
        /\ ProviderNames[prov.kind] = NameElevenLabs) =>
        pevent.file \notin files

\* The step is a call of speak (not the settling of a pending one).
SpeakIsCalled == pevent'.op = "speak" /\ pn' = pn + 1

\* The backend outcomes that report success: exit code 0 of the command,
\* or of the audio player after a 2xx response.
BackendSucceeded(outcome) == outcome \in {"exit0", "played"}

\* C16: speak called while `available` is false rejects and dispatches
\* nothing; a speak that settles after its dispatch resolves when the
\* backend reported success and rejects when it reported failure.
C16_SpeakFailsOnFailure ==
    [][ /\ (SpeakIsCalled /\ ~prov.available) =>
              /\ pevent'.status = "rejected"
              /\ ~pevent'.dispatched
              /\ pcalls' = pcalls
        /\ (pevent'.op = "speak" /\ pevent'.status = "resolved") =>
              BackendSucceeded(pevent'.outcome)
        /\ (pevent'.op = "speak" /\ pevent'.outcome # "none") =>
              (pevent'.status = "rejected") = ~BackendSucceeded(pevent'.outcome)
      ]_vars

\* C16 witness: speak was the first call on the provider (initialize() was
\* never called), and it was rejected without a dispatch.
C16_Witness ==
    /\ pn = 1 /\ pcalls = {}
    /\ pevent.op = "speak" /\ pevent.status = "rejected" /\ ~pevent.dispatched
    /\ pevent.error = NotAvailableError(prov.kind)

\* C17: isAvailable never rejects; it resolves to true exactly when the
\* check succeeded: the platform matches and the presence check exits
\* with code 0, or, for ElevenLabs, an API key is configured.
C17_IsAvailableNeverRejects ==
    pevent.op = "isAvailable" =>
        /\ pevent.status # "rejected"
        /\ pevent.status = "resolved" =>
               pevent.result = (pevent.outcome \in {"exit0", "key"})
        /\ pevent.outcome \in {"exit0", "exit1", "spawnError"} =>
               PlatformMatches(prov.kind)

\* C17 witness: on macOS, the presence check of the macOS provider could
\* not be spawned, and isAvailable has resolved to false.
C17_Witness ==
    /\ pevent.op = "isAvailable" /\ pevent.status = "resolved"
    /\ ProviderNames[prov.kind] = NameMacOS /\ platform = "darwin"
    /\ pevent.outcome = "spawnError" /\ pevent.result = FALSE

\* The speak calls in flight: dispatched to a provider and not settled.
InFlight == {c \in Pending : c.kind = "speak" /\ c.pc = "dispatched"}

\* C18: a speak call in flight completes against the provider it was
\* dispatched to, whatever setProvider does meanwhile (setProvider leaves
\* the pending calls alone, and a speak settles with the outcome of the
\* provider in its own record); and a speak call that starts is dispatched
\* to the provider that is active then, hence to Y once setProvider(Y) has
\* returned.
C18_InFlightKeepsProvider ==
    [][ /\ event'.op = "setProvider" => calls' = calls
        /\ (event'.op = "speak" /\ ncalls' = ncalls
               /\ event'.status \in {"resolved", "rejected"}) =>
              \E c \in InFlight :
                  /\ calls' = Remove(c)
                  /\ event'.target = c.target
                  /\ event'.error \in ProviderSpeakErrors(c.target.kind) \cup {""}
        /\ (event'.op = "speak" /\ ncalls' = ncalls + 1) =>
              /\ initialized /\ activeProvider # NULL => event'.status = "pending"
              /\ event'.status = "pending" =>
                    /\ event'.target = activeProvider
                    /\ activeProvider' = activeProvider
      ]_vars

\* C18 witness: a speak is in flight to the Windows provider, setProvider
\* made ElevenLabs active, and the speak called next has just been
\* dispatched to ElevenLabs.
C18_Witness ==
    /\ event.op = "speak" /\ event.status = "pending"
    /\ NameOf(event.target) = NameElevenLabs
    /\ GetActiveProvider = NameElevenLabs
    /\ \E c \in InFlight : NameOf(c.target) = NameWindows
    /\ \E c \in InFlight : NameOf(c.target) = NameElevenLabs

\* C19: after a setProvider call has succeeded the active provider stays
\* the one it chose until the next successful setProvider; in particular
\* the step that follows a successful setProvider leaves the active
\* provider alone unless it is a successful setProvider itself.  (The end
\* of an initialize() run assigns the policy's choice.)
C19_OverrideSticks ==
    [][ (/\ event.op = "setProvider" /\ event.status = "resolved"
         /\ ~(event'.op = "setProvider" /\ event'.status = "resolved")) =>
            activeProvider' = activeProvider ]_vars

\* The number of initialize() runs that await provider k.
RunsAwaiting(k) ==
    LET runs == {c \in Pending : c.pc = "init" /\ c.idx = k}
    IN  BagCardinality([c \in runs |-> CopiesIn(c, calls)])

\* C20: within a run of initialize() the detections are sequential in
\* construction order: the initialize() of provider k+1 has been called
\* exactly as often as that of provider k has settled; while a run awaits
\* provider k, no later provider of it has reported; and when initialize()
\* has assigned the active provider, a detection of each of the four
\* providers has settled.
C20_SequentialDetection ==
    /\ \A k \in 1..(Len(ProviderNames) - 1) :
           detections[k + 1] = detections[k] - RunsAwaiting(k)
    /\ \A c \in Pending :
           c.pc = "init" => \A j \in Kinds : j >= c.idx => ~c.flags[j]
    /\ InitializeRan =>
           \A k \in Kinds : detections[k] - RunsAwaiting(k) >= 1

\* C20 witness: a run awaits the Android provider: macOS and Windows have
\* settled (Windows is in the available set), ElevenLabs has not been
\* started, and no active provider is assigned yet.
C20_Witness ==
    /\ \E c \in Pending : c.pc = "init" /\ c.idx = 3 /\ c.flags[2]
    /\ detections = <<1, 1, 1, 0>>
    /\ env[4] = "available"
    /\ \E i \in DOMAIN providers : NameOf(providers[i]) = NameWindows
    /\ activeProvider = NULL /\ ~initialized

\* The bag of the speak calls that are dispatched to a provider.
Dispatched(cs) == [c \in {x \in DOMAIN cs : x.kind = "speak" /\ x.pc = "dispatched"}
                      |-> cs[c]]

\* C21: a speak call is dispatched to at most one provider, at most once.
\* A step dispatches only on behalf of a call that enters speak()'s body
\* (a new call on an initialized Manager, or one that resumes after its
\* initialize()), and then exactly once; the only other thing that happens
\* to a dispatched call is that it settles, with its provider's result,
\* and a failed one settles rejected without a further dispatch.
C21_SingleDispatch ==
    [][ LET n == BagCardinality(Dispatched(calls))
            m == BagCardinality(Dispatched(calls'))
        IN  /\ m \in {n - 1, n, n + 1}
            /\ m = n => Dispatched(calls') = Dispatched(calls)
            /\ m = n + 1 =>
                  /\ event'.op = "speak" /\ event'.status = "pending"
                  /\ \/ ncalls' = ncalls + 1 /\ initialized
                     \/ \E c \in Pending : /\ c.kind = "speak" /\ c.pc = "afterInit"
                                           /\ BagCardinality(calls') = BagCardinality(calls)
                                           /\ CopiesIn(c, calls') = CopiesIn(c, calls) - 1
            /\ m = n - 1 =>
                  \E c \in InFlight :
                      /\ calls' = Remove(c)
                      /\ event'.op = "speak"
                      /\ event'.status \in {"resolved", "rejected"}
                      /\ event'.target = c.target
            /\ (event'.op = "speak" /\ event'.status = "pending") => m = n + 1
            /\ (event'.op = "speak" /\ event'.status = "rejected") => m <= n
      ]_vars

\* C21 witness: a speak call has failed in its provider while the available
\* set holds another provider, and nothing is dispatched any more.
C21_Witness ==
    /\ event.op = "speak" /\ event.status = "rejected"
    /\ event.target # NULL
    /\ event.error \in ProviderSpeakErrors(event.target.kind)
    /\ \E p \in Range(providers) : p # event.target
    /\ InFlight = {}

\* C22: a provider's `available` flag starts false and is written only by
\* the provider's initialize(), to the result of isAvailable(); the steps
\* of isAvailable(), speak() and getVoices() leave it alone, whether they
\* succeed or fail.
C22_FlagWrittenByInitialize ==
    /\ pn = 0 => ~prov.available
    /\ [][ /\ prov'.available # prov.available =>
                 /\ pevent'.op = "initialize"
                 /\ pevent'.status = "resolved"
           /\ (pevent'.op = "initialize" /\ pevent'.status = "resolved") =>
                 prov'.available = pevent'.result
           /\ pevent'.op \in {"isAvailable", "speak", "getVoices", "rm", "tick"} =>
                 prov' = prov
         ]_vars

\* C22 witness: the provider was detected available, and a later speak
\* has failed in its backend with the flag still set.
C22_Witness ==
    /\ prov.available
    /\ pevent.op = "speak" /\ pevent.status = "rejected"
    /\ pevent.outcome \in {"exit1", "spawnError", "httpError"}

\* C23: for every numeric rate (and, for Android, pitch) passed in the
\* options, speak does not reject because of the value, and the backend is
\* handed the value brought into its range: SAPI the integer
\* clamp(round((wpm - 180) / 20), -10, 10), termux-tts-speak the rate / 175
\* and the pitch each clamped to 0.1..2.0 (10..200 hundredths).
C23_OptionsClamped ==
    LET o == pevent.options
        name == ProviderNames[prov.kind]
    IN  /\ (pevent.op = "speak" /\ pevent.status = "rejected"
               /\ pevent.outcome = "none") => Unavailable(prov)
        /\ (pevent.op = "speak" /\ pevent.dispatched) =>
              /\ (name = NameWindows /\ o.hasRate) =>
                    /\ pevent.rate = <<Max(0 - 10, Min(10, RoundDiv(o.rate - 180, 20)))>>
                    /\ pevent.rate[1] \in (0 - 10)..10
              /\ (name = NameAndroid /\ o.hasRate) =>
                    /\ Len(pevent.rate) = 1
                    /\ pevent.rate[1] \in 10..200
              /\ (name = NameAndroid /\ o.hasPitch) =>
                    /\ Len(pevent.pitch) = 1
                    /\ pevent.pitch[1] \in 10..200

\* The speak calls that hold a temporary file: written, and its player
\* not ended yet.
HoldingFile == {c \in pcalls : c.op = "speak" /\ c.file # 0}

\* C24: two speak invocations of ElevenLabs that overlap never share a
\* temporary file, and the file of an invocation whose player is still to
\* end exists and is not being removed.
C24_FilesNotShared ==
    /\ \A c \in HoldingFile, d \in HoldingFile : c # d => c.file # d.file
    /\ \A c \in HoldingFile : c.file \in files /\ c.file \notin removals

\* C26: when ElevenLabs answers with a non-2xx status, speak rejects with
\* the API error that carries the status and the body, no temporary file
\* is written, and the call ends there: it looks for no audio player and
\* spawns none.
C26_HttpErrorRejects ==
    [][ (pevent'.op = "speak" /\ pevent'.outcome = "httpError") =>
            /\ pevent'.status = "rejected"
            /\ pevent'.error = "ElevenLabs API error"
            /\ pevent'.detail \in {<<st, body>> : st \in ErrorStatuses, body \in ErrorBodies}
            /\ pevent'.file = 0
            /\ files' = files /\ removals' = removals
            /\ \E c \in pcalls : c.stage = "http" /\ pcalls' = pcalls \ {c}
            /\ \A c \in pcalls' : c \in pcalls
      ]_vars

\* C26 witness: ElevenLabs has answered a speak with status 401; no
\* temporary file exists and no call is pending.
C26_Witness ==
    /\ pevent.op = "speak" /\ pevent.outcome = "httpError"
    /\ pevent.detail = <<401, "quota_exceeded">>
    /\ files = {} /\ pcalls = {}

\* C27: whenever a speak of ElevenLabs settles after it wrote its temporary
\* file, the removal of that file has been issued (or has already run).
C27_CleanupIssued ==
    (pevent.op = "speak" /\ pevent.status \in {"resolved", "rejected"}
        /\ pevent.file # 0) =>
        (pevent.file \in removals \/ pevent.file \notin files)

\* A '#' stands at the start of a line of the text.
HashAtLineStart(s) ==
    \E i \in DOMAIN s : s[i] = "#" /\ (i = 1 \/ s[i - 1] = "\n")

\* C25: sanitizeText removes a run of '#' followed by a space only at the
\* start of a line; so a text in which no '#' starts a line keeps every
\* '#' it holds (as "C# is" would).
C25_MidLineHashKept ==
    (cleaned # <<>> /\ ~HashAtLineStart(text)) =>
        Hashes(cleaned[1]) = Hashes(text)

\* C28: in both chat routes speech is started only for a request with
\* voiceEnabled while the Manager has an active provider (and only with the
\* response of pai.chat()); what the client is sent is fixed by the outcome
\* of pai.chat() alone, is sent in the step that starts the speech, and is
\* not touched when the background speak resolves or rejects, nor while it
\* is pending.
C28_SpeechInBackground ==
    [][ /\ \A s \in bgSpeaks' \ bgSpeaks :
              /\ s.voiceEnabled /\ voiceUp
              /\ revent'.op = "reply" /\ revent'.outcome = "response"
              /\ \E r \in reqs \ reqs' : r.id = s.id
        /\ \A r \in reqs \ reqs' :
              replies'[r.id] = <<Reply(r.route, revent'.outcome)>>
        /\ revent'.op = "speakSettled" => replies' = replies
        /\ \A i \in DOMAIN replies :
              replies[i] # <<>> => replies'[i] = replies[i]
      ]_vars

\* C28 witness: the speak started for an HTTP request was rejected after
\* the request had been answered with status 200, while the speak of a
\* socket request that was answered too is still pending.
C28_Witness ==
    /\ revent.op = "speakSettled" /\ revent.outcome = "rejected"
    /\ replies[revent.id] = <<Reply("http", "response")>>
    /\ \E s \in bgSpeaks : replies[s.id] = <<Reply("ws", "response")>>

\* C29: once revokeDevice(fingerprint) has returned true, verifyDevice
\* called with the token issued for that fingerprint returns null, after
\* any sequence of registerDevice, verifyDevice, revokeDevice, saveDevices
\* and loadDevices calls.
C29_RevokedStaysRevoked ==
    (devent.op = "verifyDevice"
        /\ \E f \in revoked : devent.token = GenerateDeviceToken(f)) =>
        ~devent.found

\* C30: after PAICore.initialize() has completed the registry holds the
\* default agent kai, whatever the agents directory is, and a chat()
\* without agentType does not fail for want of it.
C30_DefaultAgentPresent ==
    coreReady =>
        /\ \E a \in agents : a.name = DefaultAgent
        /\ (cevent.op = "chat" /\ cevent.agentType = "") => cevent.status = "resolved"

====
